---- MODULE Spec2Model ----
(***************************************************************************)
(* State-machine model of the OpenClaw tool firewall: the pre-call hook    *)
(* (handleBeforeToolCall), the approval store with its chat commands, the   *)
(* in-memory sliding-window rate limiter, the tool-result hook              *)
(* (handleToolResultPersist), policy loading and evaluation, and            *)
(* redactValue on values whose containers refer to each other.              *)
(*                                                                          *)
(* Conventions.  An optional string (string | undefined) is a sequence:     *)
(* <<>> is undefined and <<s>> is the string s.  Paths are absolute paths,   *)
(* written as the sequence of their segments.  sha256Hex is                 *)
(* modelled as a collision-free tag on its input.  Tool names are           *)
(* identifiers (no ':').  Time is in milliseconds.                          *)
(*                                                                          *)
(* receipts.jsonl, last-decision.json, approvals.history.jsonl and          *)
(* approvals.rollup.json are written and never read by a decision.  Their   *)
(* content is followed for the files in `audited` (the specifications about *)
(* them) and left out elsewhere.  `unwritable` is the set of files whose    *)
(* write fails; an operation that meets one throws at that write and keeps  *)
(* the effects it had before.                                               *)
(***************************************************************************)
EXTENDS Integers, Sequences, FiniteSets, TLC

\* ------------------------------------------------------------------------
\* Bounds of the model
\* ------------------------------------------------------------------------
MaxNow == 3
MaxBucket == 3
MaxSessionApprovals == 2
MaxReceipts == 2
MaxHistory == 2

\* maxResultChars of the plugin configuration, where it is set.
MaxResultChars == 8

\* Containers (objects and arrays) of a value given to redactValue, and
\* entries of a container.
MaxContainers == 2
MaxEntries == 2

\* ------------------------------------------------------------------------
\* Optional values
\* ------------------------------------------------------------------------
Undefined == <<>>

Some(v) == <<v>>

IsDefined(o) == o # <<>>

\* JavaScript truthiness of an optional string: defined and non-empty.
Truthy(o) == o # <<>> /\ o[1] # ""

\* o ?? d
OrElse(o, d) == IF o = <<>> THEN d ELSE o[1]

\* ------------------------------------------------------------------------
\* packages/core: policy engine
\* ------------------------------------------------------------------------
Decisions == {"ALLOW", "ASK", "DENY"}

\* String(name || "tool").trim().toLowerCase(), on the names the host sends.
normalizeToolName(name) ==
  CASE name = "" -> "tool"
    [] name = "Exec" -> "exec"
    [] name = " write" -> "write"
    [] OTHER -> name

DEFAULT_POLICY ==
  [ defaults |-> [ denyUnknownTools |-> TRUE,
                   unknownToolAction |-> "DENY",
                   log |-> "safe",
                   redaction |-> "standard",
                   injection |-> [ mode |-> "alert" ] ],
    risk |-> [ read |-> "ALLOW", write |-> "ASK",
               critical |-> "DENY", unknown |-> "DENY" ] ]

RiskDecision(pol, risk) ==
  CASE risk = "read" -> pol.risk.read
    [] risk = "write" -> pol.risk.write
    [] risk = "critical" -> pol.risk.critical
    [] OTHER -> pol.risk.unknown

\* A raw ToolRule: action, allow and pathAction are optional; allowPaths is a
\* sequence of paths (empty when absent).
\* resolveDecision that reads the legacy alias before the explicit action.
resolveDecisionAliasFirst(pol, rule, risk) ==
  IF IsDefined(rule.allow) /\ rule.allow[1] = "true" THEN "ALLOW"
  ELSE IF IsDefined(rule.allow) /\ rule.allow[1] \in {"false", "deny"} THEN "DENY"
  ELSE IF IsDefined(rule.allow) /\ rule.allow[1] = "ask" THEN "ASK"
  ELSE IF IsDefined(rule.action) THEN rule.action[1]
  ELSE RiskDecision(pol, risk)

resolveDecision(pol, rule, risk) ==
  IF IsDefined(rule.action) THEN rule.action[1]
  ELSE IF IsDefined(rule.allow) /\ rule.allow[1] = "true" THEN "ALLOW"
  ELSE IF IsDefined(rule.allow) /\ rule.allow[1] \in {"false", "deny"} THEN "DENY"
  ELSE IF IsDefined(rule.allow) /\ rule.allow[1] = "ask" THEN "ASK"
  ELSE RiskDecision(pol, risk)

DEFAULT_REDACT_PARAMS == TRUE

DEFAULT_REDACT_RESULT == TRUE

DEFAULT_SCAN_INJECTION == TRUE

normalizeToolRule(pol, rule) ==
  [ name |-> normalizeToolName(rule.name),
    risk |-> OrElse(rule.risk, "unknown"),
    action |-> resolveDecision(pol, rule, OrElse(rule.risk, "unknown")),
    redactParams |-> OrElse(rule.redactParams, DEFAULT_REDACT_PARAMS),
    redactResult |-> OrElse(rule.redactResult, DEFAULT_REDACT_RESULT),
    scanInjection |-> OrElse(rule.scanInjection, DEFAULT_SCAN_INJECTION),
    useExecApprovals |-> OrElse(rule.useExecApprovals, FALSE),
    allowPaths |-> rule.allowPaths,
    pathAction |-> rule.pathAction ]

\* Map from normalized name to normalized rule; a later rule of the same
\* name replaces an earlier one.
buildPolicyIndex(pol, tools) ==
  LET names == { normalizeToolName(tools[i].name) : i \in 1..Len(tools) }
      lastOf(n) == CHOOSE i \in 1..Len(tools) :
                     /\ normalizeToolName(tools[i].name) = n
                     /\ \A j \in 1..Len(tools) :
                          normalizeToolName(tools[j].name) = n => j <= i
  IN [ n \in names |-> normalizeToolRule(pol, tools[lastOf(n)]) ]

buildReason(pol, toolName, decision, hasRule, risk) ==
  IF ~hasRule
    THEN IF pol.defaults.denyUnknownTools
           THEN IF decision = "DENY"
                  THEN "Unknown tool \"" \o toolName \o "\" denied by default policy."
                  ELSE "Unknown tool \"" \o toolName \o "\" resolved to "
                         \o decision \o " by default policy."
           ELSE "Unknown tool \"" \o toolName \o "\" evaluated by default policy."
    ELSE "Tool \"" \o toolName \o "\" (" \o risk \o ") resolved to " \o decision \o "."

\* FirewallDecision; toolRule is optional.
evaluatePolicy(pol, toolIndex, rawName) ==
  LET normalizedToolName == normalizeToolName(rawName)
      hasRule == normalizedToolName \in DOMAIN toolIndex
      rule == toolIndex[normalizedToolName]
      risk == IF hasRule THEN rule.risk ELSE "unknown"
      decision == IF hasRule THEN rule.action
                  ELSE IF pol.defaults.denyUnknownTools
                         THEN pol.defaults.unknownToolAction
                         ELSE RiskDecision(pol, risk)
  IN [ decision |-> decision,
       reason |-> buildReason(pol, normalizedToolName, decision, hasRule, risk),
       risk |-> risk,
       redactionPlan |->
         [ redactParams |-> IF hasRule THEN rule.redactParams ELSE DEFAULT_REDACT_PARAMS,
           redactResult |-> IF hasRule THEN rule.redactResult ELSE DEFAULT_REDACT_RESULT ],
       scanInjection |-> IF hasRule THEN rule.scanInjection ELSE DEFAULT_SCAN_INJECTION,
       useExecApprovals |-> IF hasRule THEN rule.useExecApprovals ELSE FALSE,
       toolRule |-> IF hasRule THEN Some(rule) ELSE Undefined ]

\* sha256Hex: collision-free.
sha256Hex(input) == "#" \o input

\* ------------------------------------------------------------------------
\* Tool parameters, stable serialization and hashing
\* ------------------------------------------------------------------------
RECURSIVE PathStr(_)
PathStr(p) == IF p = <<>> THEN "" ELSE "/" \o Head(p) \o PathStr(Tail(p))

PathText(p) == IF p = <<>> THEN "/" ELSE PathStr(p)

RECURSIVE PathListStr(_)
PathListStr(ps) ==
  IF ps = <<>> THEN ""
  ELSE "\"" \o PathText(Head(ps)) \o "\""
         \o (IF Len(ps) > 1 THEN "," ELSE "") \o PathListStr(Tail(ps))

\* One "key":value member per defined field, keys in sort order.
Members(params) ==
  << IF IsDefined(params.content)
       THEN Some("\"content\":\"" \o params.content[1] \o "\"") ELSE Undefined,
     IF IsDefined(params.filePath)
       THEN Some("\"filePath\":\"" \o PathText(params.filePath[1]) \o "\"") ELSE Undefined,
     IF IsDefined(params.filePaths)
       THEN Some("\"filePaths\":[" \o PathListStr(params.filePaths[1]) \o "]") ELSE Undefined,
     IF IsDefined(params.file_path)
       THEN Some("\"file_path\":\"" \o PathText(params.file_path[1]) \o "\"") ELSE Undefined,
     IF IsDefined(params.file_paths)
       THEN Some("\"file_paths\":[" \o PathListStr(params.file_paths[1]) \o "]") ELSE Undefined,
     IF IsDefined(params.path)
       THEN Some("\"path\":\"" \o PathText(params.path[1]) \o "\"") ELSE Undefined,
     IF IsDefined(params.paths)
       THEN Some("\"paths\":[" \o PathListStr(params.paths[1]) \o "]") ELSE Undefined >>

RECURSIVE JoinMembers(_, _)
JoinMembers(ms, first) ==
  IF ms = <<>> THEN ""
  ELSE IF Head(ms) = Undefined THEN JoinMembers(Tail(ms), first)
  ELSE (IF first THEN "" ELSE ",") \o Head(ms)[1] \o JoinMembers(Tail(ms), FALSE)

\* JSON.stringify(sortValue(value)) of a parameter object.
stableStringify(params) == "{" \o JoinMembers(Members(params), TRUE) \o "}"

hashObject(params) == sha256Hex(stableStringify(params))

truncate(value, max) ==
  IF Len(value) <= max THEN value ELSE SubSeq(value, 1, max) \o "..."

\* ------------------------------------------------------------------------
\* packages/redaction: detectors
\* ------------------------------------------------------------------------
\* The one secret of the model, an OpenAI-style key (OPENAI_KEY_RE).
Secret == "sk-abcdefghijklmnopqrstuvwxyz012345"

\* sha256Hex(match).slice(0, 8): eight hex digits stand for the digest.
ShortDigest(match) == "5e1f00d5"

\* Whether t occurs in s.
Contains(s, t) ==
  \E i \in 1..(Len(s) - Len(t) + 1) : SubSeq(s, i, i + Len(t) - 1) = t

\* Of the strings the model's parameters hold, only the secret matches a
\* detector pattern, and it is matched as a whole.
redactString(input, mode) ==
  IF mode = "off" THEN input
  ELSE IF input = Secret
    THEN "[REDACTED:openai_key:" \o ShortDigest(input) \o "]"
    ELSE input

\* Deep redaction of a parameter object: every string field goes through
\* redactString; the model's path strings match no pattern.
redactValue(params, mode) ==
  IF mode = "off" THEN params
  ELSE [params EXCEPT !.content =
          IF IsDefined(params.content)
            THEN Some(redactString(params.content[1], mode)) ELSE Undefined]

\* if (!shouldRedact || redactionMode === "off"), with the guard dropped.
SkipsRedactionNever(shouldRedact, redactionMode) == FALSE

SkipsRedaction(shouldRedact, redactionMode) ==
  ~shouldRedact \/ redactionMode = "off"

\* JSON.stringify returns for the value: none of its fields is a BigInt.
Serializable(params) == ~IsDefined(params.size)

UNSERIALIZABLE_PARAMS == "[unserializable-params]"

\* try { stableStringify(value) } catch { fallback }
safePreview(value) ==
  IF Serializable(value) THEN stableStringify(value) ELSE UNSERIALIZABLE_PARAMS

\* try { hashObject(value) } catch { sha256Hex(fallback) }
safeHash(value) ==
  IF Serializable(value) THEN hashObject(value) ELSE sha256Hex(UNSERIALIZABLE_PARAMS)

redactParamsPreview(params, shouldRedact, redactionMode) ==
  IF SkipsRedaction(shouldRedact, redactionMode)
    THEN [ preview |-> truncate(safePreview(params), 500),
           paramsHash |-> safeHash(params) ]
    ELSE LET redaction == redactValue(params, redactionMode)
         IN [ preview |-> truncate(safePreview(redaction), 500),
              paramsHash |-> safeHash(redaction) ]

\* Redaction of a tool-result message: its text, or the text of its blocks.
redactContent(content, mode) ==
  IF content.array
    THEN [content EXCEPT !.blocks =
            [ i \in 1..Len(content.blocks) |->
                [content.blocks[i] EXCEPT !.text =
                   IF IsDefined(content.blocks[i].text)
                     THEN Some(redactString(content.blocks[i].text[1], mode))
                     ELSE Undefined] ]]
    ELSE [content EXCEPT !.text = redactString(content.text, mode)]

redactMessage(message, mode) ==
  IF mode = "off" THEN message
  ELSE IF message.kind = "string"
    THEN [message EXCEPT !.text = redactString(message.text, mode)]
  ELSE [message EXCEPT !.content =
          IF IsDefined(message.content)
            THEN Some(redactContent(message.content[1], mode)) ELSE Undefined,
                       !.details =
          IF IsDefined(message.details)
            THEN Some(redactString(message.details[1], mode)) ELSE Undefined]

\* ------------------------------------------------------------------------
\* packages/scanner: injection rules
\* ------------------------------------------------------------------------
\* Of the rules, the texts of the model can match "overrides" only.
scanText(input) ==
  LET findings == IF Contains(input, "override")
                    THEN << [ id |-> "overrides", severity |-> "low" ] >>
                    ELSE << >>
  IN [ findings |-> findings, flagged |-> Len(findings) > 0 ]

\* ------------------------------------------------------------------------
\* Tool-result messages (handlers.ts)
\* ------------------------------------------------------------------------
\* A message is a string or an object { role, toolCallId, toolName, content,
\* isError, details }; content is a string or an array of blocks { type, text }.
TextBlock(text) == [ type |-> "text", text |-> Some(text) ]

ImageBlock == [ type |-> "image", text |-> Undefined ]

ArrayContent(blocks) == [ array |-> TRUE, blocks |-> blocks, text |-> "" ]

StringContent(text) == [ array |-> FALSE, blocks |-> <<>>, text |-> text ]

StringMessage(text) ==
  [ kind |-> "string", text |-> text, role |-> Undefined, toolCallId |-> Undefined,
    toolName |-> Undefined, content |-> Undefined, isError |-> Undefined,
    details |-> Undefined ]

ObjectMessage(toolCallId, toolName, content) ==
  [ kind |-> "object", text |-> "", role |-> Some("toolResult"),
    toolCallId |-> toolCallId, toolName |-> toolName,
    content |-> Some(content), isError |-> Undefined, details |-> Undefined ]

\* An object message with one more field, as tools attach them: details.
DetailedMessage(content, details) ==
  [ ObjectMessage(Undefined, Undefined, content) EXCEPT !.details = Some(details) ]

\* The object a result is built on: the event's message when it is an
\* object, {} otherwise.
EmptyObject ==
  [ kind |-> "object", text |-> "", role |-> Undefined, toolCallId |-> Undefined,
    toolName |-> Undefined, content |-> Undefined, isError |-> Undefined,
    details |-> Undefined ]

\* parts.join(separator)
RECURSIVE Join(_, _)
Join(parts, separator) ==
  IF parts = <<>> THEN ""
  ELSE IF Len(parts) = 1 THEN Head(parts)
  ELSE Head(parts) \o separator \o Join(Tail(parts), separator)

\* The texts of the blocks, the empty ones left out.
RECURSIVE BlockTexts(_)
BlockTexts(blocks) ==
  IF blocks = <<>> THEN <<>>
  ELSE (IF Truthy(Head(blocks).text) THEN << Head(blocks).text[1] >> ELSE <<>>)
         \o BlockTexts(Tail(blocks))

\* string | null
extractMessageText(message) ==
  IF message.kind = "string"
    THEN IF message.text = "" THEN Undefined ELSE Some(message.text)
  ELSE IF ~IsDefined(message.content) THEN Undefined
  ELSE IF ~message.content[1].array THEN Some(message.content[1].text)
  ELSE LET parts == BlockTexts(message.content[1].blocks)
       IN IF Len(parts) > 0 THEN Some(Join(parts, "\n")) ELSE Undefined

OversizeText(length, maxChars) ==
  "[firewall] Tool output blocked because it exceeded " \o ToString(maxChars)
    \o " characters (got " \o ToString(length) \o ")."

buildOversizeToolResult(event, length, maxChars) ==
  LET base == IF event.message.kind = "object" THEN event.message ELSE EmptyObject
      toolCallId == IF IsDefined(event.toolCallId) THEN event.toolCallId ELSE base.toolCallId
      toolName == IF IsDefined(event.toolName) THEN event.toolName ELSE base.toolName
  IN IF event.message.kind = "string" /\ ~Truthy(toolCallId) /\ ~Truthy(toolName)
       THEN StringMessage(OversizeText(length, maxChars))
       ELSE [base EXCEPT !.role = Some("toolResult"),
                         !.toolCallId = toolCallId,
                         !.toolName = toolName,
                         !.content = Some(ArrayContent(
                                       << TextBlock(OversizeText(length, maxChars)) >>)),
                         !.isError = Some(TRUE)]

buildTruncatedToolResult(message, text, maxChars) ==
  LET trimmed == SubSeq(text, 1, maxChars) \o "\n[firewall] Output truncated to "
                   \o ToString(maxChars) \o " characters."
  IN IF message.kind = "string" THEN StringMessage(trimmed)
     ELSE [message EXCEPT !.content = Some(ArrayContent(<< TextBlock(trimmed) >>))]

\* { changed, blocked, message, metadata? }
applyOutputGuard(message, maxChars, action, event) ==
  LET messageText == extractMessageText(message)
      unchanged == [ changed |-> FALSE, blocked |-> FALSE, message |-> message,
                     metadata |-> Undefined ]
      guarded == [ action |-> action, originalLength |-> Len(messageText[1]),
                   maxChars |-> maxChars[1] ]
  IN IF ~IsDefined(maxChars) \/ maxChars[1] <= 0 THEN unchanged
     ELSE IF ~Truthy(messageText) THEN unchanged
     ELSE IF Len(messageText[1]) <= maxChars[1] THEN unchanged
     ELSE IF action = "block"
       THEN [ changed |-> TRUE, blocked |-> TRUE,
              message |-> buildOversizeToolResult(event, Len(messageText[1]), maxChars[1]),
              metadata |-> Some(guarded) ]
     ELSE [ changed |-> TRUE, blocked |-> FALSE,
            message |-> buildTruncatedToolResult(message, messageText[1], maxChars[1]),
            metadata |-> Some(guarded) ]

\* findings.map(`${id}:${severity}`).join(", ")
RECURSIVE FindingTexts(_)
FindingTexts(findings) ==
  IF findings = <<>> THEN <<>>
  ELSE << Head(findings).id \o ":" \o Head(findings).severity >>
         \o FindingTexts(Tail(findings))

FindingSummary(findings) == Join(FindingTexts(findings), ", ")

BlockedText == "[firewall] Tool output blocked due to potential prompt injection."

buildBlockedToolResult(event, findings) ==
  LET base == IF event.message.kind = "object" THEN event.message ELSE EmptyObject
      toolCallId == IF IsDefined(event.toolCallId) THEN event.toolCallId ELSE base.toolCallId
      toolName == IF IsDefined(event.toolName) THEN event.toolName ELSE base.toolName
  IN IF event.message.kind = "string" /\ ~Truthy(toolCallId) /\ ~Truthy(toolName)
       THEN StringMessage(BlockedText \o "\nFindings: " \o FindingSummary(findings))
       ELSE [base EXCEPT !.role = Some("toolResult"),
                         !.toolCallId = toolCallId,
                         !.toolName = toolName,
                         !.content = Some(ArrayContent(
                                       << TextBlock(BlockedText),
                                          TextBlock("Findings: " \o FindingSummary(findings)) >>)),
                         !.isError = Some(TRUE)]

WarningText(findings) ==
  "[firewall] Potential prompt injection detected: " \o FindingSummary(findings)

\* appendWarningToMessage that puts the warning first.
appendWarningToMessageFirst(message, findings) ==
  IF message.kind = "string"
    THEN StringMessage(WarningText(findings) \o "\n" \o message.text)
  ELSE LET content == IF IsDefined(message.content) /\ message.content[1].array
                        THEN message.content[1].blocks
                      ELSE IF IsDefined(message.content)
                        THEN << TextBlock(message.content[1].text) >>
                      ELSE << >>
       IN [message EXCEPT !.content =
             Some(ArrayContent(<< TextBlock(WarningText(findings)) >> \o content))]

appendWarningToMessage(message, findings) ==
  IF message.kind = "string"
    THEN StringMessage(message.text \o "\n" \o WarningText(findings))
  ELSE LET content == IF IsDefined(message.content) /\ message.content[1].array
                        THEN message.content[1].blocks
                      ELSE IF IsDefined(message.content)
                        THEN << TextBlock(message.content[1].text) >>
                      ELSE << >>
       IN [message EXCEPT !.content =
             Some(ArrayContent(Append(content, TextBlock(WarningText(findings)))))]

\* ------------------------------------------------------------------------
\* Path guard (path-guard.ts)
\* ------------------------------------------------------------------------
readStringArray(value) == value

\* a ?? b ?? c ?? []
FirstArray(a, b, c) ==
  IF IsDefined(a) THEN a[1]
  ELSE IF IsDefined(b) THEN b[1]
  ELSE IF IsDefined(c) THEN c[1]
  ELSE <<>>

extractToolPaths(toolName, params) ==
  IF toolName \in {"read", "write", "edit"}
    THEN LET pathValue == IF IsDefined(params.path) THEN params.path
                          ELSE IF IsDefined(params.file_path) THEN params.file_path
                          ELSE params.filePath
             pathList == FirstArray(readStringArray(params.paths),
                                    readStringArray(params.file_paths),
                                    readStringArray(params.filePaths))
         IN IF IsDefined(pathValue) THEN <<pathValue[1]>> \o pathList
            ELSE pathList
    ELSE <<>>

\* isPathAllowed that accepts every candidate.
isPathAllowedAlways(candidate, allowed) == TRUE

isPathAllowed(candidate, allowed) ==
  \/ candidate = allowed
  \/ /\ allowed # <<>>
     /\ Len(candidate) > Len(allowed)
     /\ SubSeq(candidate, 1, Len(allowed)) = allowed

\* path.resolve of an absolute path: "." and ".." segments are folded.
RECURSIVE PathResolveFrom(_, _)
PathResolveFrom(done, rest) ==
  IF rest = <<>> THEN done
  ELSE IF Head(rest) = "." THEN PathResolveFrom(done, Tail(rest))
  ELSE IF Head(rest) = ".."
    THEN PathResolveFrom(IF done = <<>> THEN <<>> ELSE SubSeq(done, 1, Len(done) - 1),
                         Tail(rest))
  ELSE PathResolveFrom(Append(done, Head(rest)), Tail(rest))

PathResolve(p) == PathResolveFrom(<<>>, p)

\* state.resolvePath, the resolver the host injects: it throws (Undefined)
\* for a path under a volume the host does not know and returns every
\* other path as it is.
UnknownVolume == "~ghost"

resolvePath(input) ==
  IF input # <<>> /\ Head(input) = UnknownVolume THEN Undefined ELSE Some(input)

\* try { return path.resolve(resolver(input)) } catch { return null }
resolvePathSafe(input) ==
  LET resolved == resolvePath(input)
  IN IF IsDefined(resolved) THEN Some(PathResolve(resolved[1])) ELSE Undefined

\* entries.map(resolvePathSafe).filter(string): the candidates whose
\* resolution threw are dropped.
RECURSIVE ResolveAll(_)
ResolveAll(entries) ==
  IF entries = <<>> THEN <<>>
  ELSE LET resolved == resolvePathSafe(Head(entries))
       IN (IF IsDefined(resolved) THEN << resolved[1] >> ELSE <<>>)
            \o ResolveAll(Tail(entries))

evaluatePathAllowlist(toolName, params, allowPaths) ==
  LET toolPaths == extractToolPaths(normalizeToolName(toolName), params)
      allowed == ResolveAll(allowPaths)
      normalizedToolPaths == ResolveAll(toolPaths)
      unmatched == SelectSeq(normalizedToolPaths,
                     LAMBDA c : ~ \E i \in 1..Len(allowed) :
                                    isPathAllowed(c, allowed[i]))
  IN IF Len(toolPaths) = 0
       THEN [ allowed |-> FALSE,
              reason |-> "No path argument found for path allowlist enforcement.",
              toolPaths |-> <<>>, unmatched |-> <<>> ]
     ELSE IF Len(unmatched) > 0
       THEN [ allowed |-> FALSE,
              reason |-> "Path is outside the allowed path list.",
              toolPaths |-> normalizedToolPaths, unmatched |-> unmatched ]
     ELSE [ allowed |-> TRUE, reason |-> "Path allowlist matched.",
            toolPaths |-> normalizedToolPaths, unmatched |-> <<>> ]

\* ------------------------------------------------------------------------
\* Decision composition (handlers.ts)
\* ------------------------------------------------------------------------
decisionRank(decision) ==
  IF decision = "DENY" THEN 2
  ELSE IF decision = "ASK" THEN 1
  ELSE 0

\* overrideDecision without the rank test: the override always wins.
overrideDecisionAlways(current, override, reason) ==
  [current EXCEPT !.decision = override, !.reason = reason]

\* overrideDecision with the rank test turned round.
overrideDecisionInverted(current, override, reason) ==
  IF decisionRank(override) > decisionRank(current.decision)
    THEN current
    ELSE [current EXCEPT !.decision = override, !.reason = reason]

overrideDecision(current, override, reason) ==
  IF decisionRank(override) <= decisionRank(current.decision)
    THEN current
    ELSE [current EXCEPT !.decision = override, !.reason = reason]

\* { override?, failed }: the override is present exactly when the tool has
\* an allowlist and the parameters fail it.
evaluatePathGuard(toolName, params, decision) ==
  LET rule == decision.toolRule
      allowPaths == IF IsDefined(rule) THEN rule[1].allowPaths ELSE <<>>
      result == evaluatePathAllowlist(toolName, params, allowPaths)
      action == IF IsDefined(rule[1].pathAction) THEN rule[1].pathAction[1] ELSE "ASK"
  IN IF Len(allowPaths) = 0 THEN [ override |-> Undefined, action |-> Undefined ]
     ELSE IF ~result.allowed
       THEN [ override |-> Some(overrideDecision(decision, action,
                                   "Path guard: " \o result.reason)),
              action |-> Some(action) ]
     ELSE [ override |-> Undefined, action |-> Undefined ]

\* ------------------------------------------------------------------------
\* Rate limiter (rate-limit.ts)
\* ------------------------------------------------------------------------
\* Prune that also drops the entries at the cutoff itself.
RECURSIVE PruneAtCutoff(_, _)
PruneAtCutoff(timestamps, cutoff) ==
  IF timestamps = <<>> \/ Head(timestamps) > cutoff THEN timestamps
  ELSE PruneAtCutoff(Tail(timestamps), cutoff)

\* while (timestamps.length > 0 && timestamps[0] < cutoff) timestamps.shift()
RECURSIVE Prune(_, _)
Prune(timestamps, cutoff) ==
  IF timestamps = <<>> \/ Head(timestamps) >= cutoff THEN timestamps
  ELSE Prune(Tail(timestamps), cutoff)

\* pickMoreRestrictive that lets the later of two equal actions win.
pickLaterOnTie(current, next) ==
  IF current = Undefined THEN Some(next)
  ELSE IF decisionRank(next.rule.action) >= decisionRank(current[1].rule.action)
    THEN Some(next)
  ELSE current

pickMoreRestrictive(current, next) ==
  IF current = Undefined THEN Some(next)
  ELSE IF decisionRank(next.rule.action) > decisionRank(current[1].rule.action)
    THEN Some(next)
  ELSE current

RuleMatches(rule, normalizedTool) == rule.matchAll \/ rule.toolName = normalizedTool

\* ScopeKey that puts every session in one bucket.
ScopeKeyShared(rule, sessionKey) == "global"

ScopeKey(rule, sessionKey) ==
  IF rule.scope = "session" THEN OrElse(sessionKey, "no-session") ELSE "global"

BucketKey(rule, sessionKey) == rule.id \o ":" \o ScopeKey(rule, sessionKey)

BucketOf(bs, key) == IF key \in DOMAIN bs THEN bs[key] ELSE <<>>

SetBucket(bs, key, timestamps) ==
  [ k \in DOMAIN bs \cup {key} |-> IF k = key THEN timestamps ELSE bs[k] ]

\* The count a rule sees: the entries of its bucket not older than the window.
CountInWindow(bs, rule, sessionKey, t) ==
  Len(Prune(BucketOf(bs, BucketKey(rule, sessionKey)), t - rule.windowMs))

\* IsHit off by one: a hit only above the limit.
IsHitAboveLimit(count, rule) == count > rule.maxCalls

IsHit(count, rule) == count >= rule.maxCalls

\* The loop of evaluate() from rule i on: the buckets and the hit it leaves,
\* and the rules whose count reached their limit on the way.
RECURSIVE EvaluateFrom(_, _, _, _, _, _, _, _)
EvaluateFrom(rules, i, bs, hit, hits, normalizedTool, sessionKey, t) ==
  IF i > Len(rules) THEN [ buckets |-> bs, hit |-> hit, hits |-> hits ]
  ELSE LET rule == rules[i]
           bucketKey == BucketKey(rule, sessionKey)
           count == CountInWindow(bs, rule, sessionKey, t)
           timestamps == Prune(BucketOf(bs, bucketKey), t - rule.windowMs)
           nextBs == SetBucket(bs, bucketKey, Append(timestamps, t))
           nextHit == IF IsHit(count, rule)
                        THEN pickMoreRestrictive(hit,
                               [ rule |-> rule, count |-> count, key |-> bucketKey ])
                        ELSE hit
           nextHits == IF IsHit(count, rule) THEN hits \cup {i} ELSE hits
       IN IF ~RuleMatches(rule, normalizedTool)
            THEN EvaluateFrom(rules, i + 1, bs, hit, hits, normalizedTool, sessionKey, t)
            ELSE EvaluateFrom(rules, i + 1, nextBs, nextHit, nextHits,
                              normalizedTool, sessionKey, t)

evaluate(rules, bs, toolName, sessionKey, t) ==
  EvaluateFrom(rules, 1, bs, Undefined, {}, normalizeToolName(toolName), sessionKey, t)

\* Math.max(1, Math.round(windowMs / 1000))
WindowSec(windowMs) ==
  LET rounded == (windowMs + 500) \div 1000
  IN IF rounded < 1 THEN 1 ELSE rounded

\* What evaluateRateLimit returns when the limiter is absent or not asked.
NotLimited(bs) ==
  [ override |-> Undefined, action |-> Undefined, buckets |-> bs, hits |-> {},
    hit |-> Undefined ]

\* { override?, buckets }: without a limiter nothing is evaluated.
evaluateRateLimit(rules, bs, toolName, sessionKey, decision, t) ==
  LET res == evaluate(rules, bs, toolName, sessionKey, t)
      hit == res.hit[1]
      reason == "Rate limit exceeded (" \o ToString(hit.rule.maxCalls)
                  \o " calls / " \o ToString(WindowSec(hit.rule.windowMs)) \o "s)."
  IN IF Len(rules) = 0 THEN NotLimited(bs)
     ELSE IF res.hit = Undefined
       THEN [ override |-> Undefined, action |-> Undefined,
              buckets |-> res.buckets, hits |-> res.hits, hit |-> Undefined ]
     ELSE [ override |-> Some(overrideDecision(decision, hit.rule.action, reason)),
            action |-> Some(hit.rule.action),
            buckets |-> res.buckets, hits |-> res.hits, hit |-> res.hit ]

\* ------------------------------------------------------------------------
\* Approval store (storage.ts) and approval resolution (handlers.ts)
\* ------------------------------------------------------------------------
EmptyStore == [ requests |-> <<>>, sessionApprovals |-> <<>> ]

\* approvals.json is rewritten in full and re-read on every operation; the
\* JSON image keeps every field the model carries.
saveApprovalStore(store) == store

loadApprovalStore(file) == file

\* The files under stateDir.
APPROVALS_FILE == "approvals.json"

APPROVAL_HISTORY_FILE == "approvals.history.jsonl"

APPROVAL_ROLLUP_FILE == "approvals.rollup.json"

RECEIPTS_FILE == "receipts.jsonl"

LAST_DECISION_FILE == "last-decision.json"

ReceiptFiles == { RECEIPTS_FILE, LAST_DECISION_FILE }

ApprovalLogFiles == { APPROVAL_HISTORY_FILE, APPROVAL_ROLLUP_FILE }

\* The write failures followed: none, or one of the files a pre-call writes.
FailingFiles == { {}, {APPROVALS_FILE}, {RECEIPTS_FILE}, {LAST_DECISION_FILE} }

StateFiles ==
  { APPROVALS_FILE, APPROVAL_HISTORY_FILE, APPROVAL_ROLLUP_FILE,
    RECEIPTS_FILE, LAST_DECISION_FILE }

\* fs.appendFileSync of one JSON line.
appendApprovalHistory(file, event) == Append(file, event)

\* The rollup file is absent (Undefined) or holds the counts map.
loadApprovalRollup(file) == file

saveApprovalRollup(counts) == Some(counts)

RollupKey(event) == event.toolName \o ":" \o event.risk

\* counts with the key of the event incremented, or entered with count 1.
CountEvent(counts, event) ==
  LET key == RollupKey(event)
  IN [ k \in DOMAIN counts \cup {key} |->
         IF k # key THEN counts[k]
         ELSE IF key \in DOMAIN counts
           THEN [counts[key] EXCEPT !.count = @ + 1]
           ELSE [ toolName |-> event.toolName, risk |-> event.risk, count |-> 1 ] ]

\* updateApprovalRollup that starts from an empty map every time.
updateApprovalRollupFresh(file, event) ==
  saveApprovalRollup(CountEvent(<< >>, event))

updateApprovalRollup(file, event) ==
  LET loaded == loadApprovalRollup(file)
      counts == IF loaded = Undefined THEN << >> ELSE loaded[1]
  IN saveApprovalRollup(CountEvent(counts, event))

RECURSIVE CountEvents(_, _)
CountEvents(events, counts) ==
  IF events = <<>> THEN counts
  ELSE CountEvents(Tail(events),
                   IF Head(events).status = "approved"
                     THEN CountEvent(counts, Head(events)) ELSE counts)

\* null when the history file does not exist (nothing was ever appended).
rebuildApprovalRollupFromHistory(historyFile) ==
  IF historyFile = <<>> THEN Undefined
  ELSE saveApprovalRollup(CountEvents(historyFile, << >>))

\* appendReceipt with writeFileSync in place of appendFileSync.
appendReceiptOverwriting(file, receipt) == << receipt >>

\* fs.appendFileSync of one JSON line.
appendReceipt(file, receipt) == Append(file, receipt)

writeLastDecision(record) == Some(record)

buildApprovalId(toolName, sessionKey, paramsHash, risk) ==
  sha256Hex(toolName \o ":" \o OrElse(sessionKey, "") \o ":" \o paramsHash \o ":" \o risk)

buildAskReason(toolName, approvalId, reason, preview) ==
  "Firewall approval required for " \o toolName \o ".\n"
    \o "Reason: " \o reason \o "\n"
    \o "Request ID: " \o approvalId \o "\n"
    \o "Args (redacted): " \o preview \o "\n"
    \o "Approve: /firewall approve " \o approvalId \o " once|session\n"
    \o "Deny: /firewall deny " \o approvalId

buildApprovalRecord(id, toolName, paramsHash, paramsPreview, risk, reason, sessionKey) ==
  [ id |-> id,
    toolName |-> toolName,
    paramsHash |-> paramsHash,
    paramsPreview |-> paramsPreview,
    risk |-> risk,
    status |-> "pending",
    scope |-> Undefined,
    used |-> Undefined,
    reason |-> reason,
    sessionKey |-> IF Truthy(sessionKey) THEN sessionKey ELSE Undefined ]

buildSessionApproval(id, toolName, paramsHash, sessionKey) ==
  [ id |-> id,
    toolName |-> toolName,
    paramsHash |-> paramsHash,
    sessionKey |-> IF Truthy(sessionKey) THEN sessionKey ELSE Undefined ]

\* Array.prototype.find: the index of the first match, 0 when there is none.
FindIndex(seq, Test(_)) ==
  IF \E i \in 1..Len(seq) : Test(seq[i])
    THEN CHOOSE i \in 1..Len(seq) :
           Test(seq[i]) /\ \A j \in 1..(i - 1) : ~Test(seq[j])
    ELSE 0

\* SessionApprovalMatches that finds no session approval.
SessionApprovalMatchesNone(approval, approvalId, toolName, paramsHash, sessionKey) ==
  /\ approval.id = approvalId
  /\ approval.id # approvalId

SessionApprovalMatches(approval, approvalId, toolName, paramsHash, sessionKey) ==
  /\ approval.id = approvalId
  /\ approval.toolName = toolName
  /\ approval.paramsHash = paramsHash
  /\ approval.sessionKey = sessionKey

\* RequestMatches that passes over denied requests.
RequestMatchesUnlessDenied(entry, approvalId, toolName, paramsHash) ==
  /\ entry.id = approvalId
  /\ entry.toolName = toolName
  /\ entry.paramsHash = paramsHash
  /\ entry.status # "denied"

RequestMatches(entry, approvalId, toolName, paramsHash) ==
  /\ entry.id = approvalId
  /\ entry.toolName = toolName
  /\ entry.paramsHash = paramsHash

\* RequestApproved that takes every request not denied as approved.
RequestApprovedUnlessDenied(request) == request.status # "denied"

RequestApproved(request) == request.status = "approved"

\* What the approved branch does to the matched request.
ConsumeRequest(request) ==
  IF request.scope = Some("once") THEN [request EXCEPT !.used = Some(TRUE)]
  ELSE request

\* { allowed, id, scope?, store, saved }: store is the content of
\* approvals.json when the function returns, saved tells whether the function
\* wrote the file.
resolveApproval(file, log, decision, sessionKey, toolName, paramsHash, paramsPreview) ==
  LET store == loadApprovalStore(file)
      approvalId == buildApprovalId(toolName, sessionKey, paramsHash, decision.risk)
      previewForStore == IF log = "debug" THEN paramsPreview ELSE "[redacted]"
      sessionApproval ==
        FindIndex(store.sessionApprovals,
          LAMBDA a : SessionApprovalMatches(a, approvalId, toolName, paramsHash, sessionKey))
      ri == FindIndex(store.requests,
              LAMBDA e : RequestMatches(e, approvalId, toolName, paramsHash))
      request == store.requests[ri]
      withSession ==
        IF request.scope = Some("session") /\ sessionApproval = 0
          THEN Append(store.sessionApprovals,
                      buildSessionApproval(approvalId, toolName, paramsHash, sessionKey))
          ELSE store.sessionApprovals
      created == buildApprovalRecord(approvalId, toolName, paramsHash, previewForStore,
                                     decision.risk, decision.reason, sessionKey)
  IN IF sessionApproval # 0
       THEN [ allowed |-> TRUE, id |-> approvalId, scope |-> Some("session"),
              store |-> file, saved |-> FALSE ]
     ELSE IF ri # 0 /\ RequestApproved(request)
       THEN IF request.scope = Some("once") /\ request.used = Some(TRUE)
              THEN [ allowed |-> FALSE, id |-> approvalId, scope |-> request.scope,
                     store |-> file, saved |-> FALSE ]
              ELSE [ allowed |-> TRUE, id |-> approvalId, scope |-> request.scope,
                     store |-> saveApprovalStore(
                       [ requests |-> [store.requests EXCEPT ![ri] = ConsumeRequest(request)],
                         sessionApprovals |-> withSession ]),
                     saved |-> TRUE ]
     ELSE IF ri = 0
       THEN [ allowed |-> FALSE, id |-> approvalId, scope |-> Undefined,
              store |-> saveApprovalStore(
                [ requests |-> Append(store.requests, created),
                  sessionApprovals |-> store.sessionApprovals ]),
              saved |-> TRUE ]
     ELSE [ allowed |-> FALSE, id |-> approvalId, scope |-> Undefined,
            store |-> file, saved |-> FALSE ]

\* ------------------------------------------------------------------------
\* Chat commands (commands.ts)
\* ------------------------------------------------------------------------
ResolvedScope(scope) == IF scope = Some("session") THEN "session" ELSE "once"

ApprovedRecord(record, scope) ==
  [record EXCEPT !.status = "approved",
                 !.scope = Some(ResolvedScope(scope)),
                 !.used = Some(FALSE)]

DeniedRecord(record) == [record EXCEPT !.status = "denied"]

buildApprovalHistoryEvent(record, t) ==
  [ ts |-> t,
    toolName |-> record.toolName,
    risk |-> record.risk,
    status |-> "approved",
    scope |-> record.scope,
    approvalId |-> IF record.id # "" THEN Some(record.id) ELSE Undefined,
    paramsHash |-> IF record.paramsHash # "" THEN Some(record.paramsHash) ELSE Undefined,
    sessionKey |-> record.sessionKey ]

\* RecordsHistory that logs every approve command.
RecordsHistoryAlways(wasApproved) == TRUE

\* if (!wasApproved)
RecordsHistory(wasApproved) == ~wasApproved

\* { found, store, event? }: store is what the command saves, event is the
\* history event it appends and counts in the rollup after the save.
approveRequest(file, id, scope, t) ==
  LET store == loadApprovalStore(file)
      ri == FindIndex(store.requests, LAMBDA e : e.id = id)
      wasApproved == store.requests[ri].status = "approved"
      record == ApprovedRecord(store.requests[ri], scope)
  IN IF ri = 0 THEN [ found |-> FALSE, store |-> file, event |-> Undefined ]
     ELSE [ found |-> TRUE,
            store |-> saveApprovalStore([store EXCEPT !.requests[ri] = record]),
            event |-> IF RecordsHistory(wasApproved)
                        THEN Some(buildApprovalHistoryEvent(record, t))
                        ELSE Undefined ]

denyRequest(file, id) ==
  LET store == loadApprovalStore(file)
      ri == FindIndex(store.requests, LAMBDA e : e.id = id)
  IN IF ri = 0 THEN [ found |-> FALSE, store |-> file ]
     ELSE [ found |-> TRUE,
            store |-> saveApprovalStore(
              [store EXCEPT !.requests[ri] = DeniedRecord(store.requests[ri])]) ]

\* ------------------------------------------------------------------------
\* Configurations: policy, tool rules and rate-limit rules
\* ------------------------------------------------------------------------
NoParams ==
  [ content |-> Undefined, filePath |-> Undefined, filePaths |-> Undefined,
    file_path |-> Undefined, file_paths |-> Undefined,
    path |-> Undefined, paths |-> Undefined, size |-> Undefined ]

\* Parameters JSON.stringify throws for: size holds a BigInt.
ParamsSized(n) == [NoParams EXCEPT !.path = Some(<<"tmp", "a">>), !.content = Some("x"),
                                   !.size = Some(n)]

ParamsInside == [NoParams EXCEPT !.path = Some(<<"tmp", "a">>), !.content = Some("x")]

ParamsOutside == [NoParams EXCEPT !.path = Some(<<"etc", "passwd">>), !.content = Some("x")]

ParamsPlain == [NoParams EXCEPT !.content = Some("ls")]

\* A path the host's resolver throws for.
ParamsUnresolvable ==
  [NoParams EXCEPT !.path = Some(<<UnknownVolume, "a">>), !.content = Some("x")]

\* A path inside the allowlist once resolved, and one that is dropped.
ParamsMixed ==
  [NoParams EXCEPT !.path = Some(<<"tmp", ".", "a">>),
                   !.paths = Some(<< <<UnknownVolume, "b">> >>),
                   !.content = Some("x")]

\* A path whose text begins with an allow entry that is not its parent.
ParamsSibling == [NoParams EXCEPT !.path = Some(<<"tmpfoo", "a">>), !.content = Some("x")]

\* A path that leaves the allowlist through "..".
ParamsEscaping ==
  [NoParams EXCEPT !.path = Some(<<"tmp", "..", "etc", "passwd">>), !.content = Some("x")]

ParamsSecret == [NoParams EXCEPT !.path = Some(<<"tmp", "a">>), !.content = Some(Secret)]

ToolRule(name, risk) ==
  [ name |-> name, risk |-> Some(risk), action |-> Undefined, allow |-> Undefined,
    redactParams |-> Undefined, redactResult |-> Undefined, scanInjection |-> Undefined,
    useExecApprovals |-> Undefined, allowPaths |-> <<>>, pathAction |-> Undefined ]

\* The standard preset asks for critical tools.
StandardPolicy == [DEFAULT_POLICY EXCEPT !.risk.critical = "ASK"]

ExecRule == [ToolRule("exec", "critical") EXCEPT !.useExecApprovals = Some(TRUE)]

WriteRule(action, pathAction) ==
  [ToolRule("write", "write") EXCEPT !.action = action,
                                     !.allowPaths = << <<"tmp">> >>,
                                     !.pathAction = pathAction]

ToolsOf(writeAction, pathAction) ==
  << WriteRule(writeAction, pathAction), ExecRule, ToolRule("web_fetch", "read") >>

\* A tool whose parameters the rule says not to redact.
EditRule == [ToolRule("edit", "write") EXCEPT !.redactParams = Some(FALSE)]

\* ------------------------------------------------------------------------
\* Policy loading (config.ts)
\* ------------------------------------------------------------------------
\* A rule as a policy file gives it: every field but the name is optional,
\* and a missing name is the empty name.
FileRule(name) == [ToolRule(name, "unknown") EXCEPT !.risk = Undefined]

BaselineRule(name, risk) == ToolRule(name, risk)

BASELINE_TOOL_RULES ==
  << BaselineRule("read", "read"), BaselineRule("write", "write"),
     BaselineRule("edit", "write"), BaselineRule("apply_patch", "write"),
     ExecRule, BaselineRule("process", "critical"),
     BaselineRule("agents_list", "read"), BaselineRule("browser", "write"),
     BaselineRule("canvas", "read"), BaselineRule("cron", "write"),
     BaselineRule("gateway", "critical"), BaselineRule("image", "read"),
     BaselineRule("message", "write"), BaselineRule("nodes", "critical"),
     BaselineRule("session_status", "read"), BaselineRule("sessions_history", "read"),
     BaselineRule("sessions_list", "read"), BaselineRule("sessions_send", "write"),
     BaselineRule("sessions_spawn", "critical"), BaselineRule("tts", "read"),
     BaselineRule("web_fetch", "read"), BaselineRule("web_search", "read"),
     BaselineRule("memory_search", "read"), BaselineRule("memory_get", "read") >>

\* value.trim().toUpperCase(), on the decision texts of the policy files.
TrimUpper(value) ==
  CASE value \in { "ALLOW", "allow" } -> "ALLOW"
    [] value \in { "DENY", "deny", " Deny " } -> "DENY"
    [] value \in { "ASK", "ask" } -> "ASK"
    [] value = "maybe" -> "MAYBE"
    [] OTHER -> value

normalizeDecision(value, fallback) ==
  IF ~IsDefined(value) THEN fallback
  ELSE IF TrimUpper(value[1]) \in Decisions THEN TrimUpper(value[1])
  ELSE fallback

normalizeDecisionOptional(value) ==
  IF ~IsDefined(value) THEN Undefined
  ELSE IF TrimUpper(value[1]) \in Decisions THEN Some(TrimUpper(value[1]))
  ELSE Undefined

\* { ...existing, ...rule, name }: a field the rule gives replaces the
\* existing one, a field it omits is kept.
SpreadRule(existing, rule, name) ==
  [ name |-> name,
    risk |-> IF IsDefined(rule.risk) THEN rule.risk ELSE existing.risk,
    action |-> IF IsDefined(rule.action) THEN rule.action ELSE existing.action,
    allow |-> IF IsDefined(rule.allow) THEN rule.allow ELSE existing.allow,
    redactParams |-> IF IsDefined(rule.redactParams) THEN rule.redactParams
                     ELSE existing.redactParams,
    redactResult |-> IF IsDefined(rule.redactResult) THEN rule.redactResult
                     ELSE existing.redactResult,
    scanInjection |-> IF IsDefined(rule.scanInjection) THEN rule.scanInjection
                      ELSE existing.scanInjection,
    useExecApprovals |-> IF IsDefined(rule.useExecApprovals) THEN rule.useExecApprovals
                         ELSE existing.useExecApprovals,
    allowPaths |-> IF Len(rule.allowPaths) > 0 THEN rule.allowPaths ELSE existing.allowPaths,
    pathAction |-> IF IsDefined(rule.pathAction) THEN rule.pathAction
                   ELSE existing.pathAction ]

\* A Map from names to rules in insertion order, as the sequence of its values.
MapHas(map, name) == \E k \in 1..Len(map) : map[k].name = name

MapGet(map, name) ==
  IF MapHas(map, name) THEN map[CHOOSE k \in 1..Len(map) : map[k].name = name]
  ELSE FileRule("")

MapSet(map, name, rule) ==
  IF MapHas(map, name)
    THEN [ k \in 1..Len(map) |-> IF map[k].name = name THEN rule ELSE map[k] ]
    ELSE Append(map, rule)

RECURSIVE SetAll(_, _)
SetAll(map, rules) ==
  IF rules = <<>> THEN map
  ELSE LET rule == Head(rules)
           name == normalizeToolName(rule.name)
       IN SetAll(MapSet(map, name, [rule EXCEPT !.name = name]), Tail(rules))

RECURSIVE MergeAll(_, _)
MergeAll(map, rules) ==
  IF rules = <<>> THEN map
  ELSE LET rule == Head(rules)
           name == normalizeToolName(rule.name)
       IN MergeAll(MapSet(map, name, SpreadRule(MapGet(map, name), rule, name)),
                   Tail(rules))

mergeToolRules(base, override) == MergeAll(SetAll(<<>>, base), override)

\* A policy file sets decisions and tools; log level, redaction and injection
\* mode are those of the base.
mergePolicies(base, override) ==
  [ defaults |->
      [ denyUnknownTools |-> OrElse(override.defaults.denyUnknownTools,
                                    base.defaults.denyUnknownTools),
        unknownToolAction |-> normalizeDecision(override.defaults.unknownToolAction,
                                                base.defaults.unknownToolAction),
        log |-> base.defaults.log,
        redaction |-> base.defaults.redaction,
        injection |-> [ mode |-> base.defaults.injection.mode ] ],
    risk |-> [ read |-> normalizeDecision(override.risk.read, base.risk.read),
               write |-> normalizeDecision(override.risk.write, base.risk.write),
               critical |-> normalizeDecision(override.risk.critical, base.risk.critical),
               unknown |-> normalizeDecision(override.risk.unknown, base.risk.unknown) ],
    tools |-> mergeToolRules(base.tools, override.tools) ]

\* The loop of normalizePolicy over policy.tools.
RECURSIVE NormalizeAll(_, _)
NormalizeAll(toolMap, rules) ==
  IF rules = <<>> THEN toolMap
  ELSE LET rule == Head(rules)
           normalizedName == normalizeToolName(rule.name)
           normalizedPathAction == normalizeDecisionOptional(rule.pathAction)
           spread == SpreadRule(MapGet(toolMap, normalizedName), rule, normalizedName)
           next == IF IsDefined(normalizedPathAction)
                     THEN [spread EXCEPT !.pathAction = normalizedPathAction]
                     ELSE spread
       IN IF rule.name = "" THEN NormalizeAll(toolMap, Tail(rules))
          ELSE NormalizeAll(MapSet(toolMap, normalizedName, next), Tail(rules))

\* The baseline rules as normalizePolicy enters them.
BaselineEntry(rule) ==
  [rule EXCEPT !.name = normalizeToolName(rule.name),
               !.scanInjection = Some(OrElse(rule.scanInjection, TRUE)),
               !.redactParams = Some(OrElse(rule.redactParams, TRUE)),
               !.redactResult = Some(OrElse(rule.redactResult, TRUE))]

normalizePolicy(pol) ==
  [pol EXCEPT !.tools =
     NormalizeAll([ k \in 1..Len(BASELINE_TOOL_RULES) |->
                      BaselineEntry(BASELINE_TOOL_RULES[k]) ],
                  pol.tools)]

\* A policy file that sets nothing.
EmptyFile ==
  [ defaults |-> [ denyUnknownTools |-> Undefined, unknownToolAction |-> Undefined ],
    risk |-> [ read |-> Undefined, write |-> Undefined, critical |-> Undefined,
               unknown |-> Undefined ],
    tools |-> << >> ]

\* DEFAULT_POLICY with its empty tools list.
DefaultPolicy ==
  [ defaults |-> DEFAULT_POLICY.defaults, risk |-> DEFAULT_POLICY.risk, tools |-> << >> ]

\* loadPolicyConfig({ preset, policyPath }) for a preset file and an
\* override file as parsed (EmptyFile when there is no override).
loadPolicyConfig(presetFile, overrideFile) ==
  normalizePolicy(mergePolicies(mergePolicies(DefaultPolicy, presetFile), overrideFile))

RateRule(id, toolName, maxCalls, windowMs, action, scope) ==
  [ id |-> id, toolName |-> toolName, matchAll |-> toolName \in {"*", "all"},
    maxCalls |-> maxCalls, windowMs |-> windowMs, action |-> action, scope |-> scope ]

FirewallState(writeAction, pathAction, rules) ==
  [ policy |-> StandardPolicy,
    toolIndex |-> buildPolicyIndex(StandardPolicy, ToolsOf(writeAction, pathAction)),
    rateLimitRules |-> rules,
    maxResultChars |-> Undefined,
    maxResultAction |-> "truncate" ]

\* Approval lifecycle: write asks, a path outside the allowlist is denied,
\* no rate limiter.
ApprovalConfigurations == { FirewallState(Undefined, Some("DENY"), <<>>) }

\* Guard composition: every base decision meets path-guard and rate-limit
\* overrides of both actions.
GuardRuleSets ==
  { << RateRule("exec:0", "exec", 1, 2, "ASK", "session"),
       RateRule("write:1", "write", 1, 1, "DENY", "global") >>,
    << RateRule("exec:0", "exec", 1, 1, "DENY", "global"),
       RateRule("*:1", "*", 2, 2, "ASK", "session") >> }

GuardConfigurations ==
  { FirewallState(wa, pa, rules) :
      wa \in {Undefined, Some("ALLOW")},
      pa \in {Undefined, Some("DENY"), Some("ALLOW")},
      rules \in GuardRuleSets }

\* An approved call that the rate limiter denies.
DenyConfigurations ==
  { FirewallState(Undefined, Some("DENY"),
                  << RateRule("write:0", "write", 1, 1, "DENY", "session") >>) }

\* Calls denied before the rate limiter: by the path guard and by policy.
SkipConfigurations ==
  { FirewallState(Undefined, Some("DENY"),
                  << RateRule("write:0", "write", 1, 1, "DENY", "session"),
                     RateRule("*:1", "*", 2, 2, "ASK", "global") >>) }

\* Audit trail: both logging modes and redaction on and off; write asks
\* inside its allowlist and is denied outside, edit asks unredacted,
\* web_fetch is allowed.
AuditState(log, redaction) ==
  LET pol == [StandardPolicy EXCEPT !.defaults.log = log,
                                    !.defaults.redaction = redaction]
  IN [ policy |-> pol,
       toolIndex |-> buildPolicyIndex(pol, ToolsOf(Undefined, Some("DENY")) \o << EditRule >>),
       rateLimitRules |-> <<>>,
       maxResultChars |-> Undefined,
       maxResultAction |-> "truncate" ]

\* Policy loading: the standard preset, and a preset that has a rule for
\* write; override files that set decisions in several letter cases and
\* with unknown texts, rules for baseline tools and for other tools, two
\* rules of one name, and a rule without a name.
StandardPreset == [EmptyFile EXCEPT !.risk.critical = Some("ASK")]

ToolPreset ==
  [StandardPreset EXCEPT
     !.tools = << [FileRule("write") EXCEPT !.redactResult = Some(FALSE)] >>]

PresetFiles == { StandardPreset, ToolPreset }

OverrideTools ==
  { << [FileRule("write") EXCEPT !.action = Some("deny")] >>,
    << [FileRule("write") EXCEPT !.action = Some("DENY")] >>,
    << [FileRule("write") EXCEPT !.allowPaths = << <<"tmp">> >>,
                                 !.pathAction = Some("deny")] >>,
    << [FileRule("write") EXCEPT !.allowPaths = << <<"tmp">> >>,
                                 !.pathAction = Some("maybe")] >>,
    << [FileRule("") EXCEPT !.action = Some("ALLOW")] >>,
    << [FileRule(" write") EXCEPT !.action = Some("ALLOW"), !.redactParams = Some(FALSE)],
       [FileRule("write") EXCEPT !.action = Some("ASK")] >>,
    << [FileRule("Exec") EXCEPT !.risk = Some("write")] >>,
    << [FileRule("mystery") EXCEPT !.allow = Some("ask")] >> }

OverrideFiles ==
  { EmptyFile,
    [EmptyFile EXCEPT !.defaults.unknownToolAction = Some("ask")],
    [EmptyFile EXCEPT !.defaults.unknownToolAction = Some("maybe"),
                      !.defaults.denyUnknownTools = Some(FALSE),
                      !.risk.unknown = Some("allow")],
    [EmptyFile EXCEPT !.risk.write = Some(" Deny "), !.risk.read = Some("maybe")] }
    \cup { [EmptyFile EXCEPT !.tools = tools] : tools \in OverrideTools }

ConfigState(presetFile, overrideFile) ==
  LET pol == loadPolicyConfig(presetFile, overrideFile)
  IN [ policy |-> pol,
       toolIndex |-> buildPolicyIndex(pol, pol.tools),
       rateLimitRules |-> <<>>,
       maxResultChars |-> Undefined,
       maxResultAction |-> "truncate",
       presetFile |-> presetFile,
       policyFile |-> overrideFile ]

ConfigConfigurations ==
  { ConfigState(presetFile, overrideFile) :
      presetFile \in PresetFiles, overrideFile \in OverrideFiles }

ConfigCalls ==
  { << "write", ParamsOutside >>, << "write", ParamsInside >>, << "", ParamsPlain >>,
    << "mystery", ParamsPlain >>, << "Exec", ParamsPlain >> }

\* Policy evaluation: every default for unknown tools, and a write rule with
\* each explicit action and each value of the legacy allow field.
PolicyRule(action, allow) ==
  [ToolRule("write", "write") EXCEPT !.action = action, !.allow = allow]

PolicyState(denyUnknownTools, unknownToolAction, unknown, action, allow) ==
  LET pol == [ defaults |-> [StandardPolicy.defaults EXCEPT
                               !.denyUnknownTools = denyUnknownTools,
                               !.unknownToolAction = unknownToolAction],
               risk |-> [StandardPolicy.risk EXCEPT !.unknown = unknown],
               tools |-> << PolicyRule(action, allow),
                            [ExecRule EXCEPT !.name = "Exec"] >> ]
  IN [ policy |-> pol,
       toolIndex |-> buildPolicyIndex(pol, pol.tools),
       rateLimitRules |-> <<>>,
       maxResultChars |-> Undefined,
       maxResultAction |-> "truncate" ]

AllowValues == { Undefined, Some("true"), Some("false"), Some("deny"), Some("ask") }

PolicyConfigurations ==
  { PolicyState(denyUnknownTools, unknownToolAction, unknown, action, allow) :
      denyUnknownTools \in BOOLEAN, unknownToolAction \in Decisions,
      unknown \in Decisions, action \in { Undefined, Some("ALLOW"), Some("DENY") },
      allow \in AllowValues }

\* Tool names as the host sends them.
PolicyNames == { "write", " write", "Exec", "mystery" }

\* Tool results: each size-guard setting, injection mode and redaction on
\* and off.
ResultState(maxResultChars, maxResultAction, mode, redaction) ==
  LET pol == [StandardPolicy EXCEPT !.defaults.injection.mode = mode,
                                    !.defaults.redaction = redaction]
  IN [ policy |-> pol,
       toolIndex |-> buildPolicyIndex(pol, ToolsOf(Undefined, Undefined)),
       rateLimitRules |-> <<>>,
       maxResultChars |-> maxResultChars,
       maxResultAction |-> maxResultAction ]

ResultConfigurations ==
  { ResultState(maxResultChars, maxResultAction, mode, redaction) :
      maxResultChars \in { Undefined, Some(MaxResultChars) },
      maxResultAction \in { "truncate", "block" },
      mode \in { "shadow", "alert", "block" },
      redaction \in { "standard", "off" } }

\* Path extraction: write is allowed by policy and denied by the path
\* guard, so a call changes nothing but its own outcome.
ExtractConfigurations == { FirewallState(Some("ALLOW"), Some("DENY"), <<>>) }

\* Path resolution: write with an allowlist and each path action.
ResolveConfigurations ==
  { FirewallState(Undefined, pa, <<>>) : pa \in {Undefined, Some("DENY"), Some("ALLOW")} }

RollupConfigurations == { AuditState("safe", "standard") }

AuditConfigurations ==
  { AuditState(log, redaction) : log \in {"safe", "debug"}, redaction \in {"standard", "off"} }

\* Rate limiting: several rules on one tool, session and global scope.
RateRuleSets ==
  { << RateRule("web_fetch:0", "web_fetch", 1, 2, "DENY", "session") >>,
    << RateRule("web_fetch:0", "web_fetch", 2, 1, "DENY", "global"),
       RateRule("*:1", "*", 1, 2, "ASK", "session") >> }

\* Several rules that hit together: two ASK rules before a DENY rule, two
\* DENY rules, a rule for every tool under each of its names, and a rule of
\* another tool.
PickRuleSets ==
  { << RateRule("web_fetch:0", "web_fetch", 1, 2, "ASK", "session"),
       RateRule("*:1", "*", 1, 2, "ASK", "global"),
       RateRule("web_fetch:2", "web_fetch", 2, 2, "DENY", "session"),
       RateRule("write:3", "write", 1, 1, "DENY", "session") >>,
    << RateRule("*:0", "all", 2, 3, "DENY", "global"),
       RateRule("web_fetch:1", "web_fetch", 1, 3, "DENY", "session"),
       RateRule("exec:2", "exec", 1, 1, "ASK", "session") >> }

PickConfigurations ==
  { FirewallState(Undefined, Undefined, rules) : rules \in PickRuleSets }

\* A tool the policy allows under a rate-limit rule that asks.
EscalateConfigurations ==
  { FirewallState(Undefined, Undefined,
                  << RateRule("web_fetch:0", "web_fetch", 1, 2, "ASK", "session") >>) }

RateConfigurations ==
  { FirewallState(Undefined, Undefined, rules) : rules \in RateRuleSets }

\* What the host sends: raw tool name and parameters, and the session key.
ApprovalCalls ==
  { <<" write", ParamsInside>>, <<" write", ParamsOutside>>, <<"Exec", ParamsPlain>> }

\* The same write with two secrets apart, and with two BigInt sizes.
FingerprintCalls ==
  { <<" write", ParamsInside>>, <<" write", ParamsSecret>>,
    <<" write", ParamsSized(1)>>, <<" write", ParamsSized(2)>> }

GuardCalls ==
  { <<" write", ParamsInside>>, <<" write", ParamsOutside>>, <<"Exec", ParamsPlain>>,
    <<"web_fetch", ParamsPlain>>, <<"mystery_tool", ParamsPlain>> }

DenyCalls == { <<" write", ParamsInside>>, <<" write", ParamsOutside>> }

RateCalls == { <<"web_fetch", ParamsPlain>> }

PickCalls == { <<"web_fetch", ParamsPlain>>, <<"Exec", ParamsPlain>> }

SkipCalls ==
  { <<" write", ParamsInside>>, <<" write", ParamsOutside>>,
    <<"mystery_tool", ParamsPlain>>, <<"web_fetch", ParamsPlain>> }

\* Parameters with every combination of the single-path fields and the
\* array fields: absent, empty, a path inside and a path outside.
PathArrays ==
  { Undefined, Some(<<>>), Some(<< <<"tmp", "b">> >>), Some(<< <<"etc", "passwd">> >>) }

ExtractParams ==
  { [NoParams EXCEPT !.path = single, !.file_path = second, !.paths = a,
                     !.file_paths = b, !.filePaths = c] :
      single \in { Undefined, Some(<<"tmp", "a">>) },
      second \in { Undefined, Some(<<"etc", "hosts">>) },
      a \in PathArrays, b \in PathArrays, c \in PathArrays }

ExtractCalls == { <<" write", params>> : params \in ExtractParams }

ResolveCalls ==
  { <<" write", ParamsInside>>, <<" write", ParamsUnresolvable>>,
    <<" write", ParamsMixed>>, <<" write", ParamsEscaping>>, <<" write", ParamsPlain>>,
    <<" write", ParamsSibling>> }

RollupCalls == { <<" write", ParamsSecret>>, <<"edit", ParamsSecret>> }

AuditCalls ==
  { <<" write", ParamsSecret>>, <<" write", ParamsOutside>>,
    <<"edit", ParamsSecret>>, <<"web_fetch", ParamsPlain>> }

ResultTools == { Some("web_fetch"), Undefined }

\* Tool results, a short harmless string each.
ResultEvents ==
  { [ toolName |-> toolName, toolCallId |-> Undefined, message |-> StringMessage("ok") ] :
      toolName \in ResultTools }

\* Texts: short and long (beyond MaxResultChars), harmless and matching an
\* injection rule before or after the cut, and a secret.
ResultTexts ==
  { "ok", "override", "long text fine", "override all now", "please override", Secret }

ResultMessages ==
  { StringMessage(text) : text \in ResultTexts }
    \cup { ObjectMessage(Some("c1"), Some("web_fetch"),
                          ArrayContent(<< ImageBlock, TextBlock("see"), TextBlock(text) >>)) :
              text \in { "ok", "override" } }
    \cup { ObjectMessage(Undefined, Undefined, ArrayContent(<< TextBlock(text) >>)) :
              text \in { "override", "please override" } }
    \cup { ObjectMessage(Some("c1"), Undefined, StringContent("override")) }

\* Results with a secret in the content and in the details field, short and
\* long, harmless and matching an injection rule.
DetailedResultEvents ==
  { [ toolName |-> Some("web_fetch"), toolCallId |-> toolCallId,
      message |-> DetailedMessage(content, details) ] :
      toolCallId \in { Some("c1"), Undefined },
      content \in { StringContent("ok"), StringContent(Secret),
                    ArrayContent(<< TextBlock("override"), TextBlock(Secret) >>),
                    ArrayContent(<< TextBlock("ok") >>) },
      details \in { "ok", Secret } }

GuardedResultEvents ==
  { [ toolName |-> toolName, toolCallId |-> toolCallId, message |-> message ] :
      toolName \in ResultTools, toolCallId \in { Some("c1"), Undefined },
      message \in ResultMessages }

SessionKeys == { Undefined, Some(""), Some("s1") }

OneSession == { Some("s1") }

TwoSessions == { Undefined, Some("s1") }

LoggedScopes == { Undefined, Some("session"), Some("Session") }

CommandScopes == { Undefined, Some("once"), Some("session"), Some("Session") }

\* ------------------------------------------------------------------------
\* State
\* ------------------------------------------------------------------------
VARIABLES
  state,          \* FirewallState: policy, tool index, rate-limit rules
  approvalsFile,  \* content of approvals.json
  buckets,        \* the rate limiter's Map<bucketKey, timestamps>
  now,            \* Date.now()
  last,           \* the last operation and what it returned
  approveIssued,  \* ids for which an approve command has been applied
  onceState,      \* per id: calls since the latest approve-once command
  nonHitLog,      \* per bucket: times of the evaluations that were no hit
  passLog,        \* per bucket: times of the calls passed through
  evalLog,        \* per bucket: times of all evaluations, hits included
  receipts,       \* content of receipts.jsonl
  lastDecision,   \* content of last-decision.json, Undefined while absent
  history,        \* content of approvals.history.jsonl
  rollup,         \* content of approvals.rollup.json, Undefined while absent
  audited,        \* which of the four files above are followed
  unwritable,     \* the files whose write fails
  walk,           \* a redactValue call on a value with shared references
  procs           \* per process: the approval operation between its load and its save

vars == << state, approvalsFile, buckets, now, last,
           approveIssued, onceState, nonHitLog, passLog, evalLog,
           receipts, lastDecision, history, rollup, audited, unwritable, walk,
           procs >>

limiterVars == << buckets, nonHitLog, passLog, evalLog >>

auditVars == << receipts, lastDecision, history, rollup >>

environmentVars == << state, audited, unwritable, walk, procs >>

NoCall ==
  [ op |-> "init", toolName |-> "", sessionKey |-> Undefined, id |-> "",
    params |-> NoParams, arg |-> Undefined, paramsHash |-> "",
    base |-> "", afterExec |-> "", afterPath |-> "", pathAction |-> Undefined,
    rateAction |-> Undefined, rateHit |-> Undefined, rateHits |-> {},
    composed |-> "", composedReason |-> "",
    preview |-> "", outcome |-> "", blockReason |-> "",
    event |-> Undefined, result |-> Undefined, evaluated |-> Undefined,
    receiptDecision |-> "", receiptReason |-> "", scope |-> Undefined ]

\* The processes that share one state directory: the gateway and a second
\* host (or the CLI) of the same user.
Processes == { "gateway", "second" }

\* No approval operation in flight.
Idle ==
  [ op |-> "idle", toolName |-> "", sessionKey |-> Undefined, paramsHash |-> "",
    preview |-> "", decision |-> [ risk |-> "", reason |-> "" ],
    id |-> "", scope |-> Undefined, store |-> EmptyStore ]

\* The state directory is empty and the limiter has no bucket.
\* ------------------------------------------------------------------------
\* redactValue on values whose containers refer to each other
\* ------------------------------------------------------------------------
\* An entry of a container is a string or a reference to a container.
Text(text) == [ string |-> TRUE, text |-> text, ref |-> 0 ]

Ref(address) == [ string |-> FALSE, text |-> "", ref |-> address ]

Addresses == 1..MaxContainers

Entries == { Text("a"), Text(Secret) } \cup { Ref(address) : address \in Addresses }

Containers == UNION { [ 1..n -> Entries ] : n \in 0..MaxEntries }

\* The values: container 1 is the value passed, the others are reached
\* through references.
Heaps == [ Addresses -> Containers ]

\* { redacted: false, matches: [] }, a report being its number of matches.
emptyReport == 0

mergeReports(a, b) == a + b

\* redactString(value, options).report
StringReport(text, mode) == IF mode # "off" /\ text = Secret THEN 1 ELSE 0

\* state.seen.get(value) that finds nothing.
seenGetNothing(seen, address) == Undefined

\* state.seen.get(value)
seenGet(seen, address) ==
  IF address \in DOMAIN seen THEN Some(seen[address]) ELSE Undefined

NoWalk ==
  [ heap |-> << >>, mode |-> "off", called |-> FALSE, returned |-> FALSE,
    stack |-> << >>, seen |-> << >>, output |-> << >>, visits |-> << >>,
    cached |-> << >>, redacted |-> Undefined, report |-> emptyReport ]

StartWalk(heap, mode) == [NoWalk EXCEPT !.heap = heap, !.mode = mode]

\* The frame of redactValueWithState for a container: the output it fills,
\* the entry the loop is at, and the report so far.
Frame(address, output) ==
  [ value |-> address, output |-> output, index |-> 1, report |-> emptyReport ]

\* The value the call at the top is about to recurse into.
Pending(w) ==
  IF w.stack = << >> THEN Ref(1)
  ELSE w.heap[w.stack[Len(w.stack)].value][w.stack[Len(w.stack)].index]

\* Whether the loop of the top frame has an entry left (the first call has
\* the value itself).
HasPending(w) ==
  IF w.stack = << >> THEN ~w.called
  ELSE w.stack[Len(w.stack)].index <= Len(w.heap[w.stack[Len(w.stack)].value])

\* The recursive call returned next to the caller: the loop stores it and
\* merges its report; the first call returns it.
Deliver(w, stack, next, report) ==
  IF stack = << >>
    THEN [w EXCEPT !.stack = stack, !.returned = TRUE,
                   !.redacted = Some(next), !.report = report]
    ELSE LET top == stack[Len(stack)]
         IN [w EXCEPT
               !.stack = [stack EXCEPT ![Len(stack)] =
                            [top EXCEPT !.index = top.index + 1,
                                        !.report = mergeReports(top.report, report)]],
               !.output = [w.output EXCEPT ![top.output] = Append(@, next)]]

\* if (options.mode === "off") return { redacted: value, report: emptyReport() }
RedactOff ==
  /\ ~walk.called /\ walk.heap # << >> /\ walk.mode = "off"
  /\ walk' = [walk EXCEPT !.called = TRUE, !.returned = TRUE,
                          !.redacted = Some([ input |-> TRUE, ref |-> 1 ]),
                          !.report = emptyReport]
  /\ UNCHANGED << state, audited, unwritable, procs, limiterVars, auditVars, approvalsFile,
                  now, last, approveIssued, onceState >>

\* A string: redactString.
RedactText ==
  /\ walk.heap # << >> /\ walk.mode # "off" /\ ~walk.returned
  /\ HasPending(walk) /\ Pending(walk).string
  /\ walk' = Deliver(walk, walk.stack,
                     Text(redactString(Pending(walk).text, walk.mode)),
                     StringReport(Pending(walk).text, walk.mode))
  /\ UNCHANGED << state, audited, unwritable, procs, limiterVars, auditVars, approvalsFile,
                  now, last, approveIssued, onceState >>

\* A container met before: if (cached) return { redacted: cached, report:
\* emptyReport() }
RedactCached ==
  /\ walk.heap # << >> /\ walk.mode # "off" /\ ~walk.returned
  /\ HasPending(walk) /\ ~Pending(walk).string
  /\ IsDefined(seenGet(walk.seen, Pending(walk).ref))
  /\ walk' = [Deliver(walk, walk.stack, Ref(seenGet(walk.seen, Pending(walk).ref)[1]),
                      emptyReport)
                EXCEPT !.called = TRUE,
                       !.cached = Append(@, [ value |-> Pending(walk).ref,
                                              output |-> seenGet(walk.seen,
                                                                 Pending(walk).ref)[1],
                                              report |-> emptyReport ])]
  /\ UNCHANGED << state, audited, unwritable, procs, limiterVars, auditVars, approvalsFile,
                  now, last, approveIssued, onceState >>

\* A container not met before: a new output container, state.seen.set(value,
\* output), then the loop over its entries.
RedactEnter ==
  /\ walk.heap # << >> /\ walk.mode # "off" /\ ~walk.returned
  /\ HasPending(walk) /\ ~Pending(walk).string
  /\ ~IsDefined(seenGet(walk.seen, Pending(walk).ref))
  /\ LET value == Pending(walk).ref
         output == Len(walk.output) + 1
     IN walk' = [walk EXCEPT
                   !.called = TRUE,
                   !.stack = Append(@, Frame(value, output)),
                   !.seen = [ k \in DOMAIN walk.seen \cup { value } |->
                                IF k = value THEN output ELSE walk.seen[k] ],
                   !.output = Append(@, << >>),
                   !.visits = Append(@, value)]
  /\ UNCHANGED << state, audited, unwritable, procs, limiterVars, auditVars, approvalsFile,
                  now, last, approveIssued, onceState >>

\* The loop is over: return { redacted: output, report }
RedactReturn ==
  /\ walk.heap # << >> /\ ~walk.returned
  /\ walk.stack # << >> /\ ~HasPending(walk)
  /\ LET top == walk.stack[Len(walk.stack)]
     IN walk' = Deliver(walk, SubSeq(walk.stack, 1, Len(walk.stack) - 1),
                        Ref(top.output), top.report)
  /\ UNCHANGED << state, audited, unwritable, procs, limiterVars, auditVars, approvalsFile,
                  now, last, approveIssued, onceState >>

InitFiles(configurations, follows, failing) ==
  /\ state \in configurations
  /\ approvalsFile = EmptyStore
  /\ buckets = << >>
  /\ now = 0
  /\ last = NoCall
  /\ approveIssued = {}
  /\ onceState = << >>
  /\ nonHitLog = << >>
  /\ passLog = << >>
  /\ evalLog = << >>
  /\ receipts = << >>
  /\ lastDecision = Undefined
  /\ history = << >>
  /\ rollup = Undefined
  /\ audited = follows
  /\ unwritable \in failing
  /\ walk = NoWalk
  /\ procs = [ p \in Processes |-> Idle ]

InitWith(configurations) == InitFiles(configurations, {}, { {} })

\* ------------------------------------------------------------------------
\* Operations
\* ------------------------------------------------------------------------
GetOr(f, key, default) == IF key \in DOMAIN f THEN f[key] ELSE default

Put(f, key, value) == [ k \in DOMAIN f \cup {key} |-> IF k = key THEN value ELSE f[k] ]

\* execRewrite with the delegation left out.
execRewriteSkipped(toolName, decision) == decision

\* Delegate exec approvals to OpenClaw's built-in system.
execRewrite(toolName, decision) ==
  IF toolName = "exec" /\ decision.useExecApprovals /\ decision.decision = "ASK"
    THEN [decision EXCEPT !.decision = "ALLOW",
                          !.reason = "Exec approval delegated to OpenClaw."]
    ELSE decision

\* NeedsApproval without the early return for DENY.
NeedsApprovalUnlessAllowed(decision) == decision.decision # "ALLOW"

\* ALLOW and DENY return before approval resolution; every other decision
\* goes on to it.
NeedsApproval(decision) == decision.decision \notin {"ALLOW", "DENY"}

\* SkipsRateLimit that never skips.
SkipsRateLimitNever(decision) == FALSE

\* decision.decision === "DENY" ? {} : evaluateRateLimit(...)
SkipsRateLimit(decision) == decision.decision = "DENY"

\* The rules whose bucket an evaluation for this tool touches.
MatchingRules(rules, toolName) ==
  { i \in 1..Len(rules) : RuleMatches(rules[i], toolName) }

\* Appends t to the log of the bucket of every rule in indices; a log keeps
\* the times that lie within the rule's window before t.
RECURSIVE LogAll(_, _, _, _, _)
LogAll(log, rules, indices, sessionKey, t) ==
  IF indices = {} THEN log
  ELSE LET i == CHOOSE x \in indices : TRUE
           k == BucketKey(rules[i], sessionKey)
           kept == SelectSeq(GetOr(log, k, <<>>), LAMBDA ts : ts >= t - rules[i].windowMs)
       IN LogAll(Put(log, k, Append(kept, t)), rules, indices \ {i}, sessionKey, t)

\* { paramsPreview?, approvalId?, approvalScope? }: the preview enters the
\* metadata in debug logging only.
buildLogMetadataDebug(log, preview, approvalId, approvalScope) ==
  [ paramsPreview |-> Some(preview),
    approvalId |-> approvalId, approvalScope |-> approvalScope ]

buildLogMetadata(log, preview, approvalId, approvalScope) ==
  [ paramsPreview |-> IF log = "debug" THEN Some(preview) ELSE Undefined,
    approvalId |-> approvalId, approvalScope |-> approvalScope ]

\* if (ctx.sessionKey) next.sessionKey = ctx.sessionKey
addContext(receipt, sessionKey) ==
  [receipt EXCEPT !.sessionKey = IF Truthy(sessionKey) THEN sessionKey ELSE Undefined]

\* The receipt that recordDecision appends and writes as last decision.
recordDecision(decision, sessionKey, toolName, paramsHash, metadata, t) ==
  addContext(
    [ id |-> sha256Hex(toolName \o ":" \o ToString(t)),
      timestamp |-> t,
      toolName |-> toolName,
      decision |-> Some(decision.decision),
      risk |-> Some(decision.risk),
      reason |-> Some(decision.reason),
      paramsHash |-> Some(paramsHash),
      metadata |-> metadata,
      injection |-> Undefined,
      sessionKey |-> Undefined ],
    sessionKey)

\* handleBeforeToolCall(state, { toolName: rawName, params }, { sessionKey }).
\* Each intermediate value of the handler is bound once, in the order the
\* code computes it; approval resolution runs on the ASK path only.  The
\* handler throws at the first write that fails.
handleBeforeToolCall(rawName, params, sessionKey) ==
  LET toolName == normalizeToolName(rawName)
      rules == state.rateLimitRules
  IN
  \E evaluated \in { evaluatePolicy(state.policy, state.toolIndex, toolName) } :
  \E delegated \in { execRewrite(toolName, evaluated) } :
  \E pathGuard \in { evaluatePathGuard(toolName, params, delegated) } :
  \E guarded \in { IF IsDefined(pathGuard.override) THEN pathGuard.override[1] ELSE delegated } :
  \E rateLimit \in { IF SkipsRateLimit(guarded)
                     THEN NotLimited(buckets)
                     ELSE evaluateRateLimit(rules, buckets, toolName, sessionKey, guarded, now) } :
  \E decision \in { IF IsDefined(rateLimit.override) THEN rateLimit.override[1] ELSE guarded } :
  \E redacted \in { redactParamsPreview(params, decision.redactionPlan.redactParams,
                                         state.policy.defaults.redaction) } :
  \E approval \in { IF NeedsApproval(decision)
                      THEN resolveApproval(approvalsFile, state.policy.defaults.log,
                                           decision, sessionKey, toolName,
                                           redacted.paramsHash, redacted.preview)
                      ELSE [ allowed |-> FALSE, id |-> "", scope |-> Undefined,
                             store |-> approvalsFile, saved |-> FALSE ] } :
  LET asked == NeedsApproval(decision)
      allowed == decision.decision = "ALLOW" \/ (asked /\ approval.allowed)
      saveThrows == approval.saved /\ APPROVALS_FILE \in unwritable
      appendThrows == ~saveThrows /\ RECEIPTS_FILE \in unwritable
      writeThrows == ~saveThrows /\ ~appendThrows /\ LAST_DECISION_FILE \in unwritable
      thrown == saveThrows \/ appendThrows \/ writeThrows
      passed == allowed /\ ~thrown
      limited == ~SkipsRateLimit(guarded) /\ Len(rules) > 0
      touched == IF limited THEN MatchingRules(rules, toolName) ELSE {}
      nonHits == touched \ rateLimit.hits
      recorded == IF asked /\ approval.allowed
                    THEN [decision EXCEPT !.decision = "ALLOW",
                                          !.reason = "Tool call approved by firewall."]
                    ELSE decision
      receipt == recordDecision(recorded, sessionKey, toolName, redacted.paramsHash,
                   buildLogMetadata(state.policy.defaults.log, redacted.preview,
                                    IF asked THEN Some(approval.id) ELSE Undefined,
                                    IF asked THEN approval.scope ELSE Undefined),
                   now)
      record ==
        [ op |-> "call", toolName |-> toolName, sessionKey |-> sessionKey,
          id |-> IF asked THEN approval.id ELSE "",
          params |-> params, arg |-> Undefined,
          event |-> Undefined, result |-> Undefined, evaluated |-> Undefined,
          paramsHash |-> redacted.paramsHash,
          base |-> evaluated.decision, afterExec |-> delegated.decision,
          afterPath |-> guarded.decision,
          pathAction |-> pathGuard.action, rateAction |-> rateLimit.action,
          rateHit |-> rateLimit.hit, rateHits |-> rateLimit.hits,
          composed |-> decision.decision, composedReason |-> decision.reason,
          preview |-> redacted.preview,
          outcome |-> IF thrown THEN "throw" ELSE IF allowed THEN "pass" ELSE "block",
          blockReason |->
            IF allowed \/ thrown THEN ""
            ELSE IF asked
              THEN buildAskReason(toolName, approval.id, decision.reason, redacted.preview)
              ELSE "Firewall denied " \o toolName \o ". " \o decision.reason,
          receiptDecision |-> recorded.decision,
          receiptReason |-> recorded.reason,
          scope |-> IF asked THEN approval.scope ELSE Undefined ]
  IN /\ \A k \in DOMAIN rateLimit.buckets : Len(rateLimit.buckets[k]) <= MaxBucket
     /\ asked => Len(approval.store.sessionApprovals) <= MaxSessionApprovals
     /\ RECEIPTS_FILE \in audited => Len(receipts) < MaxReceipts
     /\ buckets' = rateLimit.buckets
     /\ approvalsFile' = IF asked /\ ~saveThrows THEN approval.store ELSE approvalsFile
     /\ receipts' = IF RECEIPTS_FILE \in audited /\ ~saveThrows /\ ~appendThrows
                      THEN appendReceipt(receipts, receipt) ELSE receipts
     /\ lastDecision' = IF LAST_DECISION_FILE \in audited /\ ~thrown
                          THEN writeLastDecision(receipt) ELSE lastDecision
     /\ last' = record
     /\ onceState' = IF asked /\ ~saveThrows /\ GetOr(onceState, approval.id, "none") = "fresh"
                       THEN Put(onceState, approval.id, "consumed")
                       ELSE onceState
     /\ nonHitLog' = LogAll(nonHitLog, rules, nonHits, sessionKey, now)
     /\ passLog' = IF passed THEN LogAll(passLog, rules, touched, sessionKey, now)
                   ELSE passLog
     /\ evalLog' = LogAll(evalLog, rules, touched, sessionKey, now)
     /\ UNCHANGED << environmentVars, now, approveIssued, history, rollup >>

\* The receipt of a persisted tool result: no decision, no parameters;
\* the injection field is present when a scan was performed.
recordToolResultReceipt(toolName, sessionKey, injection, metadata, t) ==
  addContext(
    [ id |-> sha256Hex(toolName \o ":" \o ToString(t)),
      timestamp |-> t,
      toolName |-> toolName,
      decision |-> Undefined,
      risk |-> Undefined,
      reason |-> Undefined,
      paramsHash |-> Undefined,
      metadata |-> [ paramsPreview |-> Undefined, approvalId |-> Undefined,
                     approvalScope |-> Undefined, outputGuard |-> metadata ],
      injection |-> IF IsDefined(injection)
                      THEN Some([ mode |-> state.policy.defaults.injection.mode,
                                  findings |-> injection[1].findings ])
                      ELSE Undefined,
      sessionKey |-> Undefined ],
    sessionKey)

\* The scan of the guarded message that scans the message before the guard.
ScanInputBeforeGuard(beforeGuard, afterGuard) == extractMessageText(beforeGuard)

\* extractMessageText(nextMessage), nextMessage being the guard's output.
ScanInput(beforeGuard, afterGuard) == extractMessageText(afterGuard)

\* handleToolResultPersist(state, { toolName, toolCallId, message },
\* { sessionKey }): redaction, size guard, injection scan, one receipt.
handleToolResultPersist(event, sessionKey) ==
  LET toolName == normalizeToolName(OrElse(event.toolName, "unknown"))
      redactionMode == state.policy.defaults.redaction
  IN
  \E decision \in { evaluatePolicy(state.policy, state.toolIndex, toolName) } :
  \E redacted \in { IF decision.redactionPlan.redactResult /\ redactionMode # "off"
                      THEN redactMessage(event.message, redactionMode)
                      ELSE event.message } :
  \E outputGuard \in { applyOutputGuard(redacted, state.maxResultChars,
                                          state.maxResultAction, event) } :
  LET shouldRedact == decision.redactionPlan.redactResult /\ redactionMode # "off"
      guardedMessage == IF outputGuard.changed THEN outputGuard.message ELSE redacted
      scans == decision.scanInjection /\ ~outputGuard.blocked
      messageText == IF scans THEN ScanInput(redacted, guardedMessage) ELSE Undefined
      injectionFindings == IF Truthy(messageText) THEN Some(scanText(messageText[1]))
                           ELSE Undefined
      flagged == IsDefined(injectionFindings) /\ injectionFindings[1].flagged
      mode == state.policy.defaults.injection.mode
      nextMessage ==
        IF flagged /\ mode = "block"
          THEN buildBlockedToolResult(event, injectionFindings[1].findings)
        ELSE IF flagged /\ mode = "alert"
          THEN appendWarningToMessage(guardedMessage, injectionFindings[1].findings)
        ELSE guardedMessage
      \* nextMessage !== event.message: a string is compared by value, an
      \* object by identity, and every step that acts builds a new object.
      returned ==
        IF event.message.kind = "string" /\ nextMessage.kind = "string"
          THEN nextMessage.text # event.message.text
          ELSE \/ nextMessage.kind # event.message.kind
               \/ shouldRedact \/ outputGuard.changed
               \/ (flagged /\ mode \in {"block", "alert"})
      appendThrows == RECEIPTS_FILE \in unwritable
      receipt == recordToolResultReceipt(toolName, sessionKey, injectionFindings,
                                         outputGuard.metadata, now)
  IN /\ RECEIPTS_FILE \in audited => Len(receipts) < MaxReceipts
     /\ receipts' = IF RECEIPTS_FILE \in audited /\ ~appendThrows
                      THEN appendReceipt(receipts, receipt) ELSE receipts
     /\ last' = [NoCall EXCEPT
                   !.op = "result", !.toolName = toolName, !.sessionKey = sessionKey,
                   !.outcome = IF appendThrows THEN "throw" ELSE "pass",
                   !.event = Some(event),
                   !.result = Some([ redacted |-> redacted,
                                     guard |-> outputGuard,
                                     guarded |-> guardedMessage,
                                     scanInput |-> messageText,
                                     flagged |-> flagged,
                                     message |-> nextMessage,
                                     returned |-> returned,
                                     receipt |-> receipt ])]
     /\ UNCHANGED << environmentVars, limiterVars, approvalsFile, now, approveIssued,
                     onceState, lastDecision, history, rollup >>

ToolResultPersist ==
  \E event \in ResultEvents, sessionKey \in OneSession :
    handleToolResultPersist(event, sessionKey)

GuardedToolResult ==
  \E event \in GuardedResultEvents, sessionKey \in OneSession :
    handleToolResultPersist(event, sessionKey)

DetailedToolResult ==
  \E event \in DetailedResultEvents, sessionKey \in OneSession :
    handleToolResultPersist(event, sessionKey)

\* evaluatePolicy(state.policy, { toolName }, state.toolIndex)
EvaluatePolicy ==
  \E rawName \in PolicyNames :
    /\ last' = [NoCall EXCEPT
                  !.op = "evaluate", !.toolName = rawName,
                  !.evaluated = Some(evaluatePolicy(state.policy, state.toolIndex, rawName))]
    /\ UNCHANGED << environmentVars, limiterVars, auditVars, approvalsFile, now,
                    approveIssued, onceState >>

ConfiguredToolCall ==
  \E call \in ConfigCalls, sessionKey \in OneSession :
    handleBeforeToolCall(call[1], call[2], sessionKey)

ExtractedToolCall ==
  \E call \in ExtractCalls, sessionKey \in OneSession :
    handleBeforeToolCall(call[1], call[2], sessionKey)

ResolvedToolCall ==
  \E call \in ResolveCalls, sessionKey \in OneSession :
    handleBeforeToolCall(call[1], call[2], sessionKey)

AskedToolCall ==
  \E call \in RollupCalls, sessionKey \in OneSession :
    handleBeforeToolCall(call[1], call[2], sessionKey)

AuditedToolCall ==
  \E call \in AuditCalls, sessionKey \in OneSession :
    handleBeforeToolCall(call[1], call[2], sessionKey)

BeforeToolCall ==
  \E call \in ApprovalCalls, sessionKey \in SessionKeys :
    handleBeforeToolCall(call[1], call[2], sessionKey)

GuardedToolCall ==
  \E call \in GuardCalls, sessionKey \in OneSession :
    handleBeforeToolCall(call[1], call[2], sessionKey)

FingerprintedToolCall ==
  \E call \in FingerprintCalls, sessionKey \in OneSession :
    handleBeforeToolCall(call[1], call[2], sessionKey)

PickedToolCall ==
  \E call \in PickCalls, sessionKey \in TwoSessions :
    handleBeforeToolCall(call[1], call[2], sessionKey)

EscalatedToolCall ==
  \E call \in RateCalls, sessionKey \in OneSession :
    handleBeforeToolCall(call[1], call[2], sessionKey)

DeniableToolCall ==
  \E call \in DenyCalls, sessionKey \in OneSession :
    handleBeforeToolCall(call[1], call[2], sessionKey)

LimitedToolCall ==
  \E call \in RateCalls, sessionKey \in TwoSessions :
    handleBeforeToolCall(call[1], call[2], sessionKey)

SkippableToolCall ==
  \E call \in SkipCalls, sessionKey \in OneSession :
    handleBeforeToolCall(call[1], call[2], sessionKey)

\* The ids a user can type: those shown in a block reason, and a wrong one.
KnownIds == { approvalsFile.requests[i].id : i \in 1..Len(approvalsFile.requests) }

\* /firewall approve <id> [scope]
approveCommand(scopes) ==
  \E id \in KnownIds \cup {"unknown"}, scope \in scopes :
    LET res == approveRequest(approvalsFile, id, scope, now)
        saveThrows == res.found /\ APPROVALS_FILE \in unwritable
        logs == res.found /\ ~saveThrows /\ IsDefined(res.event)
        appendThrows == logs /\ APPROVAL_HISTORY_FILE \in unwritable
        rollupThrows == logs /\ ~appendThrows /\ APPROVAL_ROLLUP_FILE \in unwritable
        thrown == saveThrows \/ appendThrows \/ rollupThrows
        applied == res.found /\ ~saveThrows
    IN /\ APPROVAL_HISTORY_FILE \in audited /\ logs => Len(history) < MaxHistory
       /\ approvalsFile' = IF applied THEN res.store ELSE approvalsFile
       /\ history' = IF APPROVAL_HISTORY_FILE \in audited /\ logs /\ ~appendThrows
                       THEN appendApprovalHistory(history, res.event[1]) ELSE history
       /\ rollup' = IF APPROVAL_ROLLUP_FILE \in audited /\ logs /\ ~appendThrows /\ ~rollupThrows
                      THEN updateApprovalRollup(rollup, res.event[1]) ELSE rollup
       /\ last' = [NoCall EXCEPT !.op = "approve", !.id = id, !.arg = scope,
                                 !.scope = Some(ResolvedScope(scope)),
                                 !.outcome = IF thrown THEN "throw"
                                             ELSE IF res.found THEN "found" ELSE "missing"]
       /\ approveIssued' = IF applied THEN approveIssued \cup {id} ELSE approveIssued
       /\ onceState' = IF applied
                         THEN Put(onceState, id,
                                  IF ResolvedScope(scope) = "once" THEN "fresh" ELSE "none")
                         ELSE onceState
       /\ UNCHANGED << environmentVars, limiterVars, now, receipts, lastDecision >>

Approve == approveCommand(CommandScopes)

ApproveLogged == approveCommand(LoggedScopes)

\* /firewall deny <id>
Deny ==
  \E id \in KnownIds \cup {"unknown"} :
    LET res == denyRequest(approvalsFile, id)
        saveThrows == res.found /\ APPROVALS_FILE \in unwritable
        applied == res.found /\ ~saveThrows
    IN /\ approvalsFile' = IF applied THEN res.store ELSE approvalsFile
       /\ last' = [NoCall EXCEPT !.op = "deny", !.id = id,
                                 !.outcome = IF saveThrows THEN "throw"
                                             ELSE IF res.found THEN "found" ELSE "missing"]
       /\ onceState' = IF applied THEN Put(onceState, id, "none") ELSE onceState
       /\ UNCHANGED << environmentVars, limiterVars, auditVars, now, approveIssued >>

\* The clock advances between operations and never goes back.
Tick ==
  /\ now < MaxNow
  /\ now' = now + 1
  /\ UNCHANGED << environmentVars, limiterVars, auditVars, approvalsFile, last,
                  approveIssued, onceState >>

\* ------------------------------------------------------------------------
\* Approval operations of several processes on one state directory: each
\* operation reads approvals.json (loadApprovalStore), changes its copy and
\* writes the whole file back (saveApprovalStore). Within a process the two
\* are one synchronous stretch of code; between processes nothing orders them.
\* ------------------------------------------------------------------------
SharedCalls == { <<" write", ParamsInside>> }

\* resolveApproval up to and including loadApprovalStore, in a pre-call whose
\* composed decision needs approval (no rate limiter is configured).
SharedCallLoad(p) ==
  /\ procs[p].op = "idle"
  /\ state.rateLimitRules = << >>
  /\ \E call \in SharedCalls, sessionKey \in TwoSessions :
     \E toolName \in { normalizeToolName(call[1]) } :
     \E evaluated \in { evaluatePolicy(state.policy, state.toolIndex, toolName) } :
     \E delegated \in { execRewrite(toolName, evaluated) } :
     \E pathGuard \in { evaluatePathGuard(toolName, call[2], delegated) } :
     \E decision \in { IF IsDefined(pathGuard.override)
                          THEN pathGuard.override[1] ELSE delegated } :
     \E redacted \in { redactParamsPreview(call[2], decision.redactionPlan.redactParams,
                                            state.policy.defaults.redaction) } :
       /\ NeedsApproval(decision)
       /\ procs' = [procs EXCEPT ![p] =
            [ Idle EXCEPT !.op = "call", !.toolName = toolName, !.sessionKey = sessionKey,
                          !.paramsHash = redacted.paramsHash, !.preview = redacted.preview,
                          !.decision = [ risk |-> decision.risk, reason |-> decision.reason ],
                          !.store = loadApprovalStore(approvalsFile) ]]
  /\ UNCHANGED << state, audited, unwritable, walk, limiterVars, auditVars, approvalsFile,
                  now, last, approveIssued, onceState >>

\* The rest of resolveApproval on the copy read before, saveApprovalStore
\* included, and the handler's return.
SharedCallSave(p) ==
  /\ procs[p].op = "call"
  /\ \E run \in { procs[p] } :
     \E res \in { resolveApproval(run.store, state.policy.defaults.log, run.decision,
                                   run.sessionKey, run.toolName, run.paramsHash,
                                   run.preview) } :
       /\ approvalsFile' = IF res.saved THEN res.store ELSE approvalsFile
       /\ last' = [NoCall EXCEPT !.op = "call", !.toolName = run.toolName,
                                 !.sessionKey = run.sessionKey, !.id = res.id,
                                 !.paramsHash = run.paramsHash, !.preview = run.preview,
                                 !.composed = "ASK", !.scope = res.scope,
                                 !.outcome = IF res.allowed THEN "pass" ELSE "block"]
       /\ onceState' =
            IF res.allowed /\ res.scope = Some("once")
              THEN Put(onceState, res.id,
                       IF GetOr(onceState, res.id, "none") = "fresh" THEN "consumed"
                       ELSE IF GetOr(onceState, res.id, "none") = "consumed" THEN "twice"
                       ELSE "unapproved")
              ELSE onceState
  /\ procs' = [procs EXCEPT ![p] = Idle]
  /\ UNCHANGED << state, audited, unwritable, walk, limiterVars, auditVars, now,
                  approveIssued >>

\* The ids the user answers: the requests of session s1.
SharedIds ==
  { approvalsFile.requests[i].id :
      i \in { j \in 1..Len(approvalsFile.requests) :
                approvalsFile.requests[j].sessionKey = Some("s1") } }

\* /firewall approve <id> [scope] and /firewall deny <id> up to and including
\* loadApprovalStore. Each id is approved by one command at most, so that
\* every pass under a once approval can be counted against that command.
SharedCommandLoad(p) ==
  /\ procs[p].op = "idle"
  /\ \E id \in SharedIds, op \in { "approve", "deny" }, scope \in { Some("once"), Some("session") } :
       /\ op = "approve" => id \notin approveIssued
       /\ op = "deny" => scope = Some("once")
       /\ procs' = [procs EXCEPT ![p] =
            [ Idle EXCEPT !.op = op, !.id = id,
                          !.scope = IF op = "approve" THEN scope ELSE Undefined,
                          !.store = loadApprovalStore(approvalsFile) ]]
       /\ approveIssued' = IF op = "approve" THEN approveIssued \cup { id } ELSE approveIssued
  /\ UNCHANGED << state, audited, unwritable, walk, limiterVars, auditVars, approvalsFile,
                  now, last, onceState >>

\* The rest of the command on the copy read before.
SharedCommandSave(p) ==
  /\ procs[p].op \in { "approve", "deny" }
  /\ \E run \in { procs[p] } :
     \E res \in { IF run.op = "approve"
                    THEN approveRequest(run.store, run.id, run.scope, now)
                    ELSE denyRequest(run.store, run.id) } :
       /\ approvalsFile' = IF res.found THEN res.store ELSE approvalsFile
       /\ last' = [NoCall EXCEPT !.op = run.op, !.id = run.id, !.arg = run.scope,
                                 !.outcome = IF res.found THEN "found" ELSE "missing"]
       /\ onceState' =
            IF res.found
              THEN Put(onceState, run.id,
                       IF run.op = "approve" /\ ResolvedScope(run.scope) = "once"
                         THEN "fresh" ELSE "none")
              ELSE onceState
  /\ procs' = [procs EXCEPT ![p] = Idle]
  /\ UNCHANGED << state, audited, unwritable, walk, limiterVars, auditVars, now,
                  approveIssued >>

CallLoad == \E p \in Processes : SharedCallLoad(p)

CallSave == \E p \in Processes : SharedCallSave(p)

CommandLoad == \E p \in Processes : SharedCommandLoad(p)

CommandSave == \E p \in Processes : SharedCommandSave(p)

\* The state directory of a process: one fixed directory under the user's
\* home, so a new process finds the files the previous one left.
\* getStateDir that gives every process a directory of its own.
getStateDirPerProcess(files) == EmptyStore

getStateDir(files) == files

\* The host restarts the plugin: createFirewallState builds a new state with
\* the same policy and a new, empty rate limiter; nothing else is in memory.
Restart ==
  /\ last.op # "restart"
  /\ buckets' = << >>
  /\ approvalsFile' = getStateDir(approvalsFile)
  /\ last' = [NoCall EXCEPT !.op = "restart"]
  /\ UNCHANGED << environmentVars, auditVars, now, approveIssued, onceState,
                  nonHitLog, passLog, evalLog >>

\* Approval lifecycle.
Init == InitWith(ApprovalConfigurations)

Next == BeforeToolCall \/ Approve \/ Deny

Spec == Init /\ [][Next]_vars

\* Approval lifecycle across restarts of the host.
NextRestart == BeforeToolCall \/ Approve \/ Deny \/ Restart

SpecRestart == Init /\ [][NextRestart]_vars

\* Two processes on one state directory.
NextShared == CallLoad \/ CallSave \/ CommandLoad \/ CommandSave

SpecShared == Init /\ [][NextShared]_vars

\* Approval ids of calls that differ in their parameters only.
NextFingerprint == FingerprintedToolCall \/ Approve

SpecFingerprint == Init /\ [][NextFingerprint]_vars

\* Several rate-limit rules hitting on one call.
InitPick == InitWith(PickConfigurations)

NextPick == PickedToolCall \/ Tick

SpecPick == InitPick /\ [][NextPick]_vars

\* Approvals of calls that a rate-limit rule escalates to ASK.
InitEscalate == InitWith(EscalateConfigurations)

NextEscalate == EscalatedToolCall \/ Approve \/ Deny \/ Tick

SpecEscalate == InitEscalate /\ [][NextEscalate]_vars

\* Guard composition.
InitGuards == InitWith(GuardConfigurations)

NextGuards == GuardedToolCall

SpecGuards == InitGuards /\ [][NextGuards]_vars

\* Approvals under a denying rate limit.
InitDeny == InitWith(DenyConfigurations)

NextDeny == DeniableToolCall \/ Approve \/ Deny \/ Tick

SpecDeny == InitDeny /\ [][NextDeny]_vars

\* Calls denied before the rate limiter.
InitSkip == InitWith(SkipConfigurations)

NextSkip == SkippableToolCall \/ Tick

SpecSkip == InitSkip /\ [][NextSkip]_vars

\* redactValue on every value of up to MaxContainers containers.
InitRedact ==
  /\ state \in ApprovalConfigurations
  /\ approvalsFile = EmptyStore
  /\ buckets = << >>
  /\ now = 0
  /\ last = NoCall
  /\ approveIssued = {}
  /\ onceState = << >>
  /\ nonHitLog = << >>
  /\ passLog = << >>
  /\ evalLog = << >>
  /\ receipts = << >>
  /\ lastDecision = Undefined
  /\ history = << >>
  /\ rollup = Undefined
  /\ audited = {}
  /\ unwritable = {}
  /\ walk \in { StartWalk(heap, mode) : heap \in Heaps, mode \in { "standard", "off" } }
  /\ procs = [ p \in Processes |-> Idle ]

NextRedact == RedactOff \/ RedactText \/ RedactCached \/ RedactEnter \/ RedactReturn

\* A call that has begun runs on: the steps are those of one synchronous call.
SpecRedact == InitRedact /\ [][NextRedact]_vars /\ WF_vars(NextRedact)

\* Calls under the policies that loadPolicyConfig produces.
InitConfig == InitWith(ConfigConfigurations)

NextConfig == ConfiguredToolCall

SpecConfig == InitConfig /\ [][NextConfig]_vars

\* Policy evaluation at different times.
InitPolicy == InitWith(PolicyConfigurations)

NextPolicy == EvaluatePolicy \/ Tick

SpecPolicy == InitPolicy /\ [][NextPolicy]_vars

\* Tool results through redaction, size guard and injection scan.
InitResult == InitWith(ResultConfigurations)

NextResult == GuardedToolResult

SpecResult == InitResult /\ [][NextResult]_vars

\* Tool results that carry secrets outside their content.
NextDetailed == DetailedToolResult

SpecDetailed == InitResult /\ [][NextDetailed]_vars

\* Path extraction from the parameters.
InitExtract == InitWith(ExtractConfigurations)

NextExtract == ExtractedToolCall

SpecExtract == InitExtract /\ [][NextExtract]_vars

\* Path resolution by the host's resolver.
InitResolve == InitWith(ResolveConfigurations)

NextResolve == ResolvedToolCall

SpecResolve == InitResolve /\ [][NextResolve]_vars

\* Approval history and rollup.
InitRollup == InitFiles(RollupConfigurations, ApprovalLogFiles, { {} })

NextRollup == AskedToolCall \/ ApproveLogged \/ Deny

SpecRollup == InitRollup /\ [][NextRollup]_vars

\* Audit trail: receipts and last decision.
InitAudit == InitFiles(AuditConfigurations, ReceiptFiles, { {} })

NextAudit == AuditedToolCall \/ ToolResultPersist \/ Approve \/ Deny

SpecAudit == InitAudit /\ [][NextAudit]_vars

\* Audit trail with one of the files the pre-call writes failing.
InitFaulty == InitFiles(RollupConfigurations, ReceiptFiles, FailingFiles)

NextFaulty == AuditedToolCall \/ ToolResultPersist \/ Approve \/ Deny

SpecFaulty == InitFaulty /\ [][NextFaulty]_vars

\* Rate limiting.
InitRate == InitWith(RateConfigurations)

NextRate == LimitedToolCall \/ Tick

SpecRate == InitRate /\ [][NextRate]_vars

\* ------------------------------------------------------------------------
\* Properties
\* ------------------------------------------------------------------------
Requests == approvalsFile.requests

SessionApprovals == approvalsFile.sessionApprovals

RequestsWithId(requests, id) == { i \in 1..Len(requests) : requests[i].id = id }

\* The step just taken was a pre-call whose composed decision was d.
CallDecided(d) == last'.op = "call" /\ last'.composed = d

AskBlockReason(call) ==
  buildAskReason(call.toolName, call.id, call.composedReason, call.preview)

\* C1: after `approve <id> once`, the first call that reaches approval
\* resolution with that id is passed through and marks the request used;
\* every later one, until the next command for the id, is blocked with the
\* ASK block reason and adds no request.
C1_OnceApprovalPassesExactlyOneCall ==
  [][ CallDecided("ASK") =>
        LET id == last'.id
            since == GetOr(onceState, id, "none")
        IN /\ since = "fresh" =>
                /\ last'.outcome = "pass"
                /\ \A i \in RequestsWithId(approvalsFile'.requests, id) :
                     approvalsFile'.requests[i].used = Some(TRUE)
           /\ since = "consumed" =>
                /\ last'.outcome = "block"
                /\ last'.blockReason = AskBlockReason(last')
                /\ Len(approvalsFile'.requests) = Len(Requests) ]_vars

\* C2: a call whose composed decision is ASK is passed through only if an
\* approve command was applied earlier to its approval id; a pre-call adds
\* requests only as pending and leaves status and scope of the others alone.
C2_PassRequiresApproveCommand ==
  /\ [](last.op = "call" /\ last.composed = "ASK" /\ last.outcome = "pass"
          => last.id \in approveIssued)
  /\ [][ last'.op = "call" =>
           /\ Len(approvalsFile'.requests) >= Len(Requests)
           /\ \A i \in 1..Len(approvalsFile'.requests) :
                IF i <= Len(Requests)
                  THEN /\ approvalsFile'.requests[i].status = Requests[i].status
                       /\ approvalsFile'.requests[i].scope = Requests[i].scope
                  ELSE approvalsFile'.requests[i].status = "pending" ]_vars

C2_Witness ==
  /\ last.op = "call" /\ last.composed = "ASK" /\ last.outcome = "pass"
  /\ \E i \in 1..Len(Requests) : Requests[i].status = "pending"
  /\ \E i \in 1..Len(Requests) : Requests[i].id = last.id /\ Requests[i].used = Some(TRUE)

\* C4: an ASK block names a request id that the store holds exactly once,
\* and no id is ever held twice.
C4_BlockedRequestStoredOnce ==
  /\ (last.op = "call" /\ last.composed = "ASK" /\ last.outcome = "block") =>
       /\ last.blockReason = AskBlockReason(last)
       /\ Cardinality(RequestsWithId(Requests, last.id)) = 1
  /\ \A i, j \in 1..Len(Requests) : Requests[i].id = Requests[j].id => i = j

\* A blocked call repeated on a request that a command has already touched.
C4_Witness ==
  /\ last.op = "call" /\ last.composed = "ASK" /\ last.outcome = "block"
  /\ Len(Requests) = 2
  /\ \E i \in RequestsWithId(Requests, last.id) : Requests[i].status = "denied"

\* C5: sessionApprovals holds at most one entry per
\* (id, toolName, paramsHash, sessionKey), for every session key.
C5_OneSessionApprovalPerFingerprint ==
  \A i, j \in 1..Len(SessionApprovals) :
    SessionApprovals[i] = SessionApprovals[j] => i = j

\* C6: every session approval belongs to a request of the same id that is
\* approved with scope session.
C6_SessionApprovalsBackedByRequest ==
  \A k \in 1..Len(SessionApprovals) :
    \E i \in 1..Len(Requests) :
      /\ Requests[i].id = SessionApprovals[k].id
      /\ Requests[i].status = "approved"
      /\ Requests[i].scope = Some("session")

\* The request that approval resolution would match for a call.
FingerprintId(call, risk) ==
  buildApprovalId(call.toolName, call.sessionKey, call.paramsHash, risk)

\* C3: a call whose composed decision is DENY is blocked with
\* `Firewall denied <tool>. <reason>` and leaves approvals.json as it was.
C3_DenyBlocksAndLeavesStore ==
  [][ CallDecided("DENY") =>
        /\ last'.outcome = "block"
        /\ last'.blockReason =
             "Firewall denied " \o last'.toolName \o ". " \o last'.composedReason
        /\ last'.receiptDecision = "DENY"
        /\ approvalsFile' = approvalsFile ]_vars

\* A denied call whose fingerprint has an approval that would pass it.
C3_Witness ==
  /\ last.op = "call" /\ last.composed = "DENY" /\ last.outcome = "block"
  /\ \E i \in 1..Len(Requests) :
       /\ Requests[i].id = FingerprintId(last, Requests[i].risk)
       /\ Requests[i].status = "approved"
       /\ Requests[i].used = Some(FALSE)

Max(a, b) == IF a >= b THEN a ELSE b

OptionRank(action) == IF IsDefined(action) THEN decisionRank(action[1]) ELSE 0

\* The decision alone, as overrideDecision composes it.
Composed(decision, action) ==
  IF IsDefined(action)
    THEN overrideDecision([decision |-> decision, reason |-> ""], action[1], "").decision
    ELSE decision

\* C7: the composed decision is the highest-ranked of the decision after the
\* exec rewrite, the path-guard action and the rate-limit action; no guard
\* lowers it and the order of the two guards does not change it.
C7_ComposedIsMaxRank ==
  last.op = "call" =>
    /\ decisionRank(last.composed) =
         Max(decisionRank(last.afterExec),
             Max(OptionRank(last.pathAction), OptionRank(last.rateAction)))
    /\ decisionRank(last.afterPath) >= decisionRank(last.afterExec)
    /\ decisionRank(last.composed) >= decisionRank(last.afterPath)
    /\ Composed(Composed(last.afterExec, last.rateAction), last.pathAction) = last.composed

\* Both guards override, with different actions, and one is below the base.
C7_Witness ==
  /\ last.op = "call"
  /\ IsDefined(last.pathAction) /\ IsDefined(last.rateAction)
  /\ last.pathAction # last.rateAction
  /\ OptionRank(last.pathAction) < decisionRank(last.afterExec)

ExecDelegated(call) ==
  /\ call.op = "call" /\ call.toolName = "exec" /\ call.base = "ASK"
  /\ state.toolIndex["exec"].useExecApprovals

\* C8: a delegated exec call that no guard overrides is passed through,
\* recorded as ALLOW with the delegation reason, and writes no approval.
C8_ExecDelegatedPassesWithoutRequest ==
  [][ (ExecDelegated(last') /\ last'.pathAction = Undefined
                            /\ last'.rateAction = Undefined) =>
        /\ last'.outcome = "pass"
        /\ last'.receiptDecision = "ALLOW"
        /\ last'.receiptReason = "Exec approval delegated to OpenClaw."
        /\ approvalsFile' = approvalsFile ]_vars

C8_Witness ==
  /\ ExecDelegated(last)
  /\ last.pathAction = Undefined /\ last.rateAction = Undefined
  /\ last.outcome = "pass" /\ buckets # << >>

RankDecision(rank) == IF rank = 2 THEN "DENY" ELSE IF rank = 1 THEN "ASK" ELSE "ALLOW"

\* Guards composed on the policy decision first, the rewrite afterwards.
GuardsThenRewrite(call) ==
  LET guarded == Max(decisionRank(call.base),
                     Max(OptionRank(call.pathAction), OptionRank(call.rateAction)))
  IN IF guarded = 1 THEN "ALLOW" ELSE RankDecision(guarded)

\* C9 as stated: the exec rewrite acts on the decision that the guards left.
C9_RewriteAfterGuards ==
  ExecDelegated(last) => last.composed = GuardsThenRewrite(last)

\* C9 amended: the exec rewrite acts on the policy decision, before the
\* guards; their overrides are composed on the rewritten ALLOW.
C9_RewriteBeforeGuards ==
  ExecDelegated(last) =>
    /\ last.afterExec = "ALLOW"
    /\ decisionRank(last.composed) =
         Max(OptionRank(last.pathAction), OptionRank(last.rateAction))
    /\ (last.outcome = "pass" /\ last.receiptReason = "Exec approval delegated to OpenClaw.")
         <=> (OptionRank(last.pathAction) = 0 /\ OptionRank(last.rateAction) = 0)

\* A delegated exec call that a rate-limit rule raises to ASK.
C9_Witness ==
  /\ ExecDelegated(last)
  /\ last.rateAction = Some("ASK")
  /\ last.composed = "ASK" /\ last.outcome = "block"

\* C10: for every rule and scope key, at most maxCalls evaluations that were
\* no hit, and for a DENY rule at most maxCalls calls passed through, lie in
\* any interval of length windowMs.
C10_AtMostMaxCallsPerWindow ==
  \A i \in 1..Len(state.rateLimitRules), sessionKey \in TwoSessions :
    LET rule == state.rateLimitRules[i]
        key == BucketKey(rule, sessionKey)
    IN /\ Len(GetOr(nonHitLog, key, <<>>)) <= rule.maxCalls
       /\ rule.action = "DENY" => Len(GetOr(passLog, key, <<>>)) <= rule.maxCalls

\* The window of a DENY rule is full of calls passed earlier, and the call
\* that follows within the window is blocked by the rule.
C10_Witness ==
  \E i \in 1..Len(state.rateLimitRules) :
    LET rule == state.rateLimitRules[i]
        key == BucketKey(rule, last.sessionKey)
    IN /\ last.op = "call" /\ last.rateAction = Some("DENY") /\ last.outcome = "block"
       /\ rule.action = "DENY"
       /\ key \in DOMAIN passLog
       /\ Len(passLog[key]) = rule.maxCalls
       /\ passLog[key][1] < now

\* The step just taken was a pre-call (the clock stands still during it).
CallStep == last'.op = "call" /\ now' = now

\* The bucket that a rule keeps for a session, spelled out.
OwnBucket(rule, sessionKey) ==
  rule.id \o ":" \o
    (IF rule.scope = "global" THEN "global"
     ELSE IF sessionKey = Undefined THEN "no-session"
     ELSE sessionKey[1])

\* The keys of the buckets that differ between two bucket maps.
ChangedBuckets(before, after) ==
  { k \in DOMAIN before \cup DOMAIN after : BucketOf(before, k) # BucketOf(after, k) }

\* C11: a call of session s changes only the buckets that the matching
\* rules keep for s (the rule's one bucket when its scope is global), so for
\* a session rule the count that any other session sees stays as it was; a
\* global rule has one bucket for all sessions.
C11_SessionBucketsAreSeparate ==
  [][ CallStep =>
        LET rules == state.rateLimitRules
            own == { OwnBucket(rules[i], last'.sessionKey) :
                       i \in MatchingRules(rules, last'.toolName) }
        IN /\ ChangedBuckets(buckets, buckets') \subseteq own
           /\ \A i \in 1..Len(rules), other \in TwoSessions :
                /\ (rules[i].scope = "session" /\ other # last'.sessionKey) =>
                     CountInWindow(buckets', rules[i], other, now)
                       = CountInWindow(buckets, rules[i], other, now)
                /\ rules[i].scope = "global" =>
                     BucketKey(rules[i], other) = BucketKey(rules[i], last'.sessionKey) ]_vars

\* One session is at the limit of a session rule, and a call of the other
\* session is passed by the same rule.
C11_Witness ==
  \E i \in 1..Len(state.rateLimitRules) :
    LET rule == state.rateLimitRules[i]
    IN /\ rule.scope = "session"
       /\ last.op = "call" /\ last.sessionKey = Undefined /\ last.outcome = "pass"
       /\ CountInWindow(buckets, rule, Some("s1"), now) > rule.maxCalls
       /\ CountInWindow(buckets, rule, Undefined, now) = 1

\* C12: a call whose decision after the path guard is DENY leaves every
\* bucket as it was; a call whose decision there is ALLOW or ASK appends the
\* current time to the pruned bucket of every matching rule.
C12_DeniedCallsSkipRateLimiter ==
  [][ CallStep =>
        LET rules == state.rateLimitRules
        IN IF last'.afterPath = "DENY" THEN buckets' = buckets
           ELSE \A i \in MatchingRules(rules, last'.toolName) :
                  LET key == OwnBucket(rules[i], last'.sessionKey)
                  IN /\ key \in DOMAIN buckets'
                     /\ buckets'[key] =
                          Append(Prune(BucketOf(buckets, key), now - rules[i].windowMs), now) ]_vars

\* A call denied by the path guard, or by policy for an unknown tool that a
\* `*` rule matches, while a matching bucket holds entries.
C12_Witness ==
  /\ last.op = "call" /\ last.afterPath = "DENY" /\ last.rateAction = Undefined
  /\ \E i \in MatchingRules(state.rateLimitRules, last.toolName) :
       BucketOf(buckets, OwnBucket(state.rateLimitRules[i], last.sessionKey)) # <<>>
  /\ last.base = "DENY" \/ last.pathAction = Some("DENY")

\* ------------------------------------------------------------------------
\* Approval history and rollup
\* ------------------------------------------------------------------------
\* The counts of approvals.rollup.json, none while the file is absent.
RollupCounts(file) ==
  LET loaded == loadApprovalRollup(file)
  IN IF loaded = Undefined THEN << >> ELSE loaded[1]

\* C13: in every reachable state the counts in
\* approvals.rollup.json are the counts that a rebuild from
\* approvals.history.jsonl yields: per "tool:risk" key, the number of
\* approved events with that tool and risk.
C13_RollupEqualsRebuild ==
    RollupCounts(rollup) = RollupCounts(rebuildApprovalRollupFromHistory(history))

\* The rollup has counted two approvals under one key.
C13_Witness ==
  /\ Len(history) = MaxHistory
  /\ \E key \in DOMAIN RollupCounts(rollup) : RollupCounts(rollup)[key].count = 2

\* The stored request with the given id.
RequestWithId(file, id) ==
  LET requests == loadApprovalStore(file).requests
  IN requests[CHOOSE i \in 1..Len(requests) : requests[i].id = id]

\* The count stored under a key, 0 when the key is absent.
CountOf(file, key) ==
  IF key \in DOMAIN RollupCounts(file) THEN RollupCounts(file)[key].count ELSE 0

\* An approve command that found its request.
ApproveStep == last'.op = "approve" /\ last'.outcome = "found"

\* C14: an approve command on an existing request leaves it approved,
\* with scope session when the argument is exactly "session" and once
\* otherwise, and used = false.  When the request was not approved before,
\* the command appends exactly one event to the history and adds one to
\* the rollup count of the request's "tool:risk" key, leaving the other
\* keys alone; when it was approved already, history and rollup stay as
\* they are.
C14_ApproveLogsFirstApprovalOnly ==
  [][ ApproveStep =>
        LET before == RequestWithId(approvalsFile, last'.id)
            after == RequestWithId(approvalsFile', last'.id)
            key == before.toolName \o ":" \o before.risk
        IN /\ after.status = "approved"
           /\ after.scope = Some(IF last'.arg = Some("session") THEN "session" ELSE "once")
           /\ after.used = Some(FALSE)
           /\ IF before.status # "approved"
                THEN /\ Len(history') = Len(history) + 1
                     /\ SubSeq(history', 1, Len(history)) = history
                     /\ history'[Len(history')].approvalId = Some(last'.id)
                     /\ CountOf(rollup', key) = CountOf(rollup, key) + 1
                     /\ \A other \in DOMAIN RollupCounts(rollup') \ {key} :
                          CountOf(rollup', other) = CountOf(rollup, other)
                ELSE history' = history /\ rollup' = rollup
    ]_vars

\* One request has been logged twice, the first time with scope session
\* (it was denied in between), and the latest command, with the argument
\* "Session", has left it approved with scope once.
C14_Witness ==
  /\ last.op = "approve" /\ last.outcome = "found"
  /\ last.arg = Some("Session")
  /\ Len(history) = 2
  /\ history[1].approvalId = history[2].approvalId
  /\ history[1].scope = Some("session")
  /\ RequestWithId(approvalsFile, last.id).scope = Some("once")

\* ------------------------------------------------------------------------
\* Receipts and last decision
\* ------------------------------------------------------------------------
\* A tool-result step that returned.
ResultStep == last'.op = "result" /\ last'.outcome # "throw"

\* A pre-call step that returned, and the exit path it took.
ReturnedCallStep == CallStep /\ last'.outcome # "throw"

ExitPath(call) ==
  IF call.composed = "ALLOW" THEN "ALLOW"
  ELSE IF call.composed = "DENY" THEN "DENY"
  ELSE IF call.outcome = "pass" THEN "ASK approved"
  ELSE "ASK blocked"

ExitPaths == { "ALLOW", "DENY", "ASK approved", "ASK blocked" }

\* receipts.jsonl is the earlier content followed by one new line.
OneReceiptAppended ==
  /\ Len(receipts') = Len(receipts) + 1
  /\ SubSeq(receipts', 1, Len(receipts)) = receipts

\* C15: a pre-call that returns appends exactly one receipt, whichever of
\* the four exit paths it takes, and the receipt is the one of this call:
\* its tool, and the decision the call was recorded with; a tool-result
\* call appends exactly one receipt; every other operation leaves
\* receipts.jsonl as it is, so no earlier receipt is removed or rewritten.
C15_OneReceiptPerInvocation ==
  [][ /\ ReturnedCallStep =>
           /\ ExitPath(last') \in ExitPaths
           /\ OneReceiptAppended
           /\ receipts'[Len(receipts')].toolName = last'.toolName
           /\ receipts'[Len(receipts')].decision = Some(last'.receiptDecision)
      /\ ResultStep =>
           /\ OneReceiptAppended
           /\ receipts'[Len(receipts')].toolName = last'.toolName
           /\ receipts'[Len(receipts')].decision = Undefined
      /\ ~(CallStep \/ last'.op = "result") => receipts' = receipts
    ]_vars

\* An approved ASK call has appended the second receipt after a blocked one.
C15_Witness ==
  /\ last.op = "call" /\ ExitPath(last) = "ASK approved"
  /\ Len(receipts) = 2
  /\ receipts[1].decision = Some("ASK")
  /\ receipts[2].decision = Some("ALLOW")

\* C16: last-decision.json holds the last record of receipts.jsonl
\* whenever a receipt has been written.
C16_LastDecisionIsLastReceipt ==
  receipts # << >> => lastDecision = Some(receipts[Len(receipts)])

\* ------------------------------------------------------------------------
\* Write failures
\* ------------------------------------------------------------------------
\* C17: a pre-call never throws: whichever write fails, it returns the
\* passthrough or the block of its decision.
C17_PreCallNeverThrows ==
  last.op = "call" => last.outcome \in {"pass", "block"}

\* ------------------------------------------------------------------------
\* Parameter previews
\* ------------------------------------------------------------------------
\* C18: no preview shows a raw secret of the call parameters, whatever the
\* policy says about redaction: neither the paramsPreview of a stored
\* approval record nor the preview that the block reason of an ASK call
\* shows after "Args (redacted):" contains the secret.
C18_PreviewsHoldNoSecret ==
  /\ \A i \in 1..Len(Requests) : ~Contains(Requests[i].paramsPreview, Secret)
  /\ last.op = "call" /\ last.outcome = "block" /\ last.composed = "ASK" =>
       /\ Contains(last.blockReason, "Args (redacted): " \o last.preview)
       /\ ~Contains(last.preview, Secret)

\* The receipts on file, last-decision.json included.
StoredReceipts ==
  { receipts[i] : i \in 1..Len(receipts) }
    \cup (IF IsDefined(lastDecision) THEN { lastDecision[1] } ELSE {})

\* C19: under log = safe every approval record is stored with the preview
\* "[redacted]" and no receipt, last-decision.json included, has a
\* paramsPreview in its metadata.  Under log = debug the computed preview
\* of a call is what its receipt (and last-decision.json) carry and what
\* the approval record of the call is stored with.
C19_PreviewStoredInDebugOnly ==
  /\ state.policy.defaults.log = "safe" =>
       /\ \A i \in 1..Len(Requests) : Requests[i].paramsPreview = "[redacted]"
       /\ \A receipt \in StoredReceipts : receipt.metadata.paramsPreview = Undefined
  /\ state.policy.defaults.log = "debug" /\ last.op = "call" =>
       /\ receipts[Len(receipts)].metadata.paramsPreview = Some(last.preview)
       /\ lastDecision[1].metadata.paramsPreview = Some(last.preview)
       /\ \A i \in 1..Len(Requests) :
            Requests[i].id = last.id => Requests[i].paramsPreview = last.preview

\* Safe logging: an ASK call with a secret parameter has been blocked, its
\* record is stored and its receipt written.
C19_Witness ==
  /\ state.policy.defaults.log = "safe"
  /\ last.op = "call" /\ last.outcome = "block" /\ last.composed = "ASK"
  /\ last.preview # "[redacted]"
  /\ \E i \in 1..Len(Requests) : Requests[i].id = last.id
  /\ receipts # << >>
  /\ lastDecision = Some(receipts[Len(receipts)])

\* ------------------------------------------------------------------------
\* Path resolution failures
\* ------------------------------------------------------------------------
\* The allowlist of the tool, empty when it has none.
AllowPathsOf(toolName) ==
  IF toolName \in DOMAIN state.toolIndex THEN state.toolIndex[toolName].allowPaths ELSE <<>>

\* The call named path candidates and the resolver threw for each of them.
AllCandidatesDropped(call) ==
  LET toolPaths == extractToolPaths(call.toolName, call.params)
  IN /\ toolPaths # <<>>
     /\ \A i \in 1..Len(toolPaths) : resolvePathSafe(toolPaths[i]) = Undefined

\* C20: a call to a tool with an allowlist whose path candidates were all
\* dropped by the resolver is not allowed by the path guard: the guard
\* produces the override of the rule's pathAction (ASK when the rule has
\* none).
C20_UnresolvableIsNotAllowed ==
  last.op = "call" /\ AllowPathsOf(last.toolName) # <<>> /\ AllCandidatesDropped(last) =>
    last.pathAction =
      Some(OrElse(state.toolIndex[last.toolName].pathAction, "ASK"))

\* ------------------------------------------------------------------------
\* Path allowlist
\* ------------------------------------------------------------------------
\* Whether the text s begins with the text t.
StartsWith(s, t) == Len(s) >= Len(t) /\ SubSeq(s, 1, Len(t)) = t

\* The candidate text equals the entry or begins with the entry followed
\* by the separator.
TextAllowed(candidate, entry) ==
  candidate = entry \/ StartsWith(candidate, entry \o "/")

\* At least one candidate was extracted and every candidate that resolved
\* is allowed by some entry of the resolved allowlist.
CandidatesAllowed(call) ==
  LET candidates == extractToolPaths(call.toolName, call.params)
      resolved == ResolveAll(candidates)
      entries == ResolveAll(AllowPathsOf(call.toolName))
  IN /\ candidates # <<>>
     /\ \A i \in 1..Len(resolved) : \E j \in 1..Len(entries) :
          TextAllowed(PathText(resolved[i]), PathText(entries[j]))

Range(seq) == { seq[i] : i \in 1..Len(seq) }

\* The single path: path, else file_path, else filePath.
SinglePath(params) ==
  IF IsDefined(params.path) THEN { params.path[1] }
  ELSE IF IsDefined(params.file_path) THEN { params.file_path[1] }
  ELSE IF IsDefined(params.filePath) THEN { params.filePath[1] }
  ELSE {}

\* The entries of every array that is present.
ArrayPaths(params) ==
  Range(OrElse(params.paths, <<>>)) \cup Range(OrElse(params.file_paths, <<>>))
    \cup Range(OrElse(params.filePaths, <<>>))

\* C22: for write the candidates checked against the allowlist are the
\* single path together with the entries of all the arrays paths,
\* file_paths and filePaths that are present; so a call with a path
\* outside the allowlist in any of the arrays meets the path guard.
C22_EveryArrayIsChecked ==
  last.op = "call" =>
    /\ Range(extractToolPaths(last.toolName, last.params))
         = SinglePath(last.params) \cup ArrayPaths(last.params)
    /\ (\E candidate \in ArrayPaths(last.params) :
          ~isPathAllowed(candidate, <<"tmp">>)) => last.pathAction # Undefined
\* ------------------------------------------------------------------------
\* Tool results
\* ------------------------------------------------------------------------
ResultOf == last.result[1]

EventOf == last.event[1]

\* The text the size guard measures: that of the message after redaction.
GuardInput == extractMessageText(ResultOf.redacted)

Oversize ==
  /\ IsDefined(state.maxResultChars)
  /\ Truthy(GuardInput)
  /\ Len(GuardInput[1]) > state.maxResultChars[1]

TruncatedText(text, maxChars) ==
  SubSeq(text, 1, maxChars) \o "\n[firewall] Output truncated to "
    \o ToString(maxChars) \o " characters."

\* C23: the injection scanner runs on the output of the size guard: after a
\* truncation it reads the truncated text and its findings are those of that
\* text; when the guard blocks nothing is scanned, the receipt has no
\* injection field and the message returned is the oversize error result.
C23_ScanReadsGuardOutput ==
  last.op = "result" =>
    IF Oversize /\ state.maxResultAction = "block"
      THEN /\ ResultOf.scanInput = Undefined
           /\ ResultOf.receipt.injection = Undefined
           /\ ResultOf.returned
           /\ extractMessageText(ResultOf.message)
                = Some(OversizeText(Len(GuardInput[1]), state.maxResultChars[1]))
    ELSE IF Oversize
      THEN LET cut == TruncatedText(GuardInput[1], state.maxResultChars[1])
           IN /\ ResultOf.scanInput = Some(cut)
              /\ IsDefined(ResultOf.receipt.injection)
              /\ ResultOf.receipt.injection[1].findings = scanText(cut).findings
    ELSE ResultOf.scanInput = GuardInput

\* An injection phrase behind the cut is not found in the truncated result.
C23_Witness ==
  /\ last.op = "result"
  /\ Oversize /\ state.maxResultAction = "truncate"
  /\ Contains(GuardInput[1], "override")
  /\ ~ResultOf.flagged
  /\ ResultOf.receipt.injection[1].findings = << >>

\* The identifier the event gives, or else the one its message gives.
EventToolCallId ==
  IF IsDefined(EventOf.toolCallId) THEN EventOf.toolCallId ELSE EventOf.message.toolCallId

EventToolName ==
  IF IsDefined(EventOf.toolName) THEN EventOf.toolName ELSE EventOf.message.toolName

GuardBlocked == ResultOf.guard.blocked

InjectionBlocked == ResultOf.flagged /\ state.policy.defaults.injection.mode = "block"

Alerted == ResultOf.flagged /\ state.policy.defaults.injection.mode = "alert"

\* The size guard or the injection step built the message returned.
Rewritten == ResultOf.guard.changed \/ InjectionBlocked \/ Alerted

\* C24: a structured message that the size guard or the injection step
\* built carries the toolCallId and the toolName of the event, and an
\* oversize or injection block result carries isError = true.
C24_RewrittenKeepsEventIds ==
  (last.op = "result" /\ Rewritten /\ ResultOf.message.kind = "object") =>
    /\ ResultOf.message.toolCallId = EventToolCallId
    /\ ResultOf.message.toolName = EventToolName
    /\ (GuardBlocked \/ InjectionBlocked) => ResultOf.message.isError = Some(TRUE)

WarningPrefix == "[firewall] Potential prompt injection detected: "

\* The content of a structured message as blocks, a string content being
\* one text block.
PriorBlocks(message) ==
  IF ~IsDefined(message.content) THEN << >>
  ELSE IF message.content[1].array THEN message.content[1].blocks
  ELSE << TextBlock(message.content[1].text) >>

IsWarning(block) == IsDefined(block.text) /\ StartsWith(block.text[1], WarningPrefix)

WarningAppended(before, after) ==
  IF before.kind = "string"
    THEN /\ after.kind = "string"
         /\ \E summary \in { FindingSummary(ResultOf.receipt.injection[1].findings) } :
              after.text = before.text \o "\n" \o WarningPrefix \o summary
    ELSE LET prior == PriorBlocks(before)
             blocks == after.content[1].blocks
         IN /\ after.kind = "object"
            /\ after.content[1].array
            /\ Len(blocks) = Len(prior) + 1
            /\ SubSeq(blocks, 1, Len(prior)) = prior
            /\ IsWarning(blocks[Len(blocks)])
            /\ Cardinality({ k \in 1..Len(blocks) : IsWarning(blocks[k]) }) = 1
            /\ [after EXCEPT !.content = before.content] = before

\* C25: for a flagged result, mode shadow leaves the message as redaction
\* and size guard produced it and puts the findings in the receipt; mode
\* alert returns that message with one warning appended after its content,
\* the content before it unchanged and in order.
C25_ShadowKeepsAlertAppends ==
  (last.op = "result" /\ ResultOf.flagged) =>
    /\ IsDefined(ResultOf.receipt.injection)
    /\ ResultOf.receipt.injection[1].findings # << >>
    /\ state.policy.defaults.injection.mode = "shadow" =>
         /\ ResultOf.message = ResultOf.guarded
         /\ ResultOf.returned =>
              (ResultOf.guard.changed \/ ResultOf.redacted # EventOf.message
                 \/ EventOf.message.kind = "object")
    /\ state.policy.defaults.injection.mode = "alert" =>
         /\ ResultOf.returned
         /\ WarningAppended(ResultOf.guarded, ResultOf.message)

\* An alert on a structured message of three blocks, an image among them.
C25_Witness ==
  /\ last.op = "result"
  /\ Alerted
  /\ ResultOf.message.kind = "object"
  /\ Len(ResultOf.message.content[1].blocks) = 4
  /\ ResultOf.message.content[1].blocks[1] = ImageBlock

\* ------------------------------------------------------------------------
\* Policy evaluation
\* ------------------------------------------------------------------------
\* The trimmed, lower-cased form of the names of PolicyNames.
TrimmedLower(name) ==
  CASE name = " write" -> "write"
    [] name = "Exec" -> "exec"
    [] OTHER -> name

\* The rules of the policy whose name, trimmed and lower-cased, is the name.
RulesNamed(name) ==
  { k \in 1..Len(state.policy.tools) : TrimmedLower(state.policy.tools[k].name) = name }

RiskEntry(risk) ==
  CASE risk = "read" -> state.policy.risk.read
    [] risk = "write" -> state.policy.risk.write
    [] risk = "critical" -> state.policy.risk.critical
    [] OTHER -> state.policy.risk.unknown

\* The decision by the precedence: explicit action, legacy allow alias,
\* risk table.
RuleDecision(rule) ==
  IF rule.action # Undefined THEN rule.action[1]
  ELSE IF rule.allow = Some("true") THEN "ALLOW"
  ELSE IF rule.allow \in { Some("false"), Some("deny") } THEN "DENY"
  ELSE IF rule.allow = Some("ask") THEN "ASK"
  ELSE RiskEntry(OrElse(rule.risk, "unknown"))

ExpectedDecision(rawName) ==
  LET name == TrimmedLower(rawName)
  IN IF RulesNamed(name) # {}
       THEN RuleDecision(state.policy.tools[CHOOSE k \in RulesNamed(name) : TRUE])
     ELSE IF state.policy.defaults.denyUnknownTools
       THEN state.policy.defaults.unknownToolAction
     ELSE state.policy.risk.unknown

C27_ReasonTemplates ==
  last.op = "evaluate" =>
    LET name == TrimmedLower(last.toolName)
        decision == last.evaluated[1].decision
    IN last.evaluated[1].reason =
         IF RulesNamed(name) = {}
           THEN IF decision = "DENY"
                  THEN "Unknown tool \"" \o name \o "\" denied by default policy."
                  ELSE "Unknown tool \"" \o name \o "\" resolved to " \o decision
                         \o " by default policy."
           ELSE "Tool \"" \o name \o "\" (" \o last.evaluated[1].risk
                  \o ") resolved to " \o decision \o "."

\* ------------------------------------------------------------------------
\* Policy loading
\* ------------------------------------------------------------------------
LoadedTools == state.policy.tools

\* Every decision of the loaded policy is ALLOW, DENY or ASK.
LoadedDecisionsValid ==
  /\ state.policy.defaults.unknownToolAction \in Decisions
  /\ { state.policy.risk.read, state.policy.risk.write,
       state.policy.risk.critical, state.policy.risk.unknown } \subseteq Decisions
  /\ \A k \in 1..Len(LoadedTools) :
       /\ IsDefined(LoadedTools[k].action) => LoadedTools[k].action[1] \in Decisions
       /\ IsDefined(LoadedTools[k].pathAction) => LoadedTools[k].pathAction[1] \in Decisions
  /\ \A name \in DOMAIN state.toolIndex : state.toolIndex[name].action \in Decisions

\* The policy file's last rule for the tool called says deny, in any case.
FileDenies ==
  \E k \in 1..Len(state.policyFile.tools) :
    /\ TrimmedLower(state.policyFile.tools[k].name) = last.toolName
    /\ state.policyFile.tools[k].action \in { Some("deny"), Some("DENY") }
    /\ \A j \in (k + 1)..Len(state.policyFile.tools) :
         TrimmedLower(state.policyFile.tools[j].name) # last.toolName

\* C28: in a policy from loadPolicyConfig every default decision, risk
\* entry, tool action and pathAction is ALLOW, DENY or ASK, whatever case
\* the file used and whatever unknown text it held; so the decision a
\* pre-call is dispatched on is one of the three, and a call of a tool whose
\* rule says `action: deny` is blocked as denied.
C28_LoadedDecisionsAreDecisions ==
  /\ LoadedDecisionsValid
  /\ last.op = "call" =>
       /\ last.composed \in Decisions
       /\ FileDenies =>
            /\ last.outcome = "block"
            /\ StartsWith(last.blockReason, "Firewall denied " \o last.toolName)

BaselineNames == { BASELINE_TOOL_RULES[k].name : k \in 1..Len(BASELINE_TOOL_RULES) }

\* The rules of a file that have a name.
NamedRules(file) == SelectSeq(file.tools, LAMBDA rule : rule.name # "")

\* The entries for a name in the order baseline, preset, override.
Chain(name) ==
  SelectSeq([ k \in 1..Len(BASELINE_TOOL_RULES) |-> BaselineEntry(BASELINE_TOOL_RULES[k]) ]
              \o NamedRules(state.presetFile) \o NamedRules(state.policyFile),
            LAMBDA rule : TrimmedLower(rule.name) = name)

MergedFields ==
  { "risk", "action", "allow", "redactParams", "redactResult", "scanInjection",
    "useExecApprovals" }

\* The field as the last entry that gives it has it.
LastGiven(chain, field) ==
  LET given == { k \in 1..Len(chain) : chain[k][field] # Undefined }
  IN IF given = {} THEN Undefined
     ELSE chain[CHOOSE k \in given : \A j \in given : j <= k][field]

\* C29: after normalizePolicy no two entries of tools have the same
\* normalized name, every baseline tool has an entry, each field of an entry
\* is the one the last of baseline, preset and override rule of that name
\* gave, and a rule without a name adds and changes no entry.
C29_ToolsMergedByName ==
  /\ \A i, j \in 1..Len(LoadedTools) : LoadedTools[i].name = LoadedTools[j].name => i = j
  /\ \A k \in 1..Len(LoadedTools) : LoadedTools[k].name = TrimmedLower(LoadedTools[k].name)
  /\ BaselineNames \subseteq { LoadedTools[k].name : k \in 1..Len(LoadedTools) }
  /\ \A k \in 1..Len(LoadedTools) :
       /\ Chain(LoadedTools[k].name) # << >>
       /\ \A field \in MergedFields :
            LoadedTools[k][field] = LastGiven(Chain(LoadedTools[k].name), field)

\* ------------------------------------------------------------------------
\* redactValue on shared and cyclic values
\* ------------------------------------------------------------------------
\* The output container made for an input container: the outputs are made
\* in the order of the visits.
OutputOf(value) == CHOOSE k \in 1..Len(walk.visits) : walk.visits[k] = value

Visited == { walk.visits[k] : k \in 1..Len(walk.visits) }

\* The containers the value passed refers to, itself included.
RECURSIVE ReachableFrom(_, _)
ReachableFrom(found, n) ==
  IF n = 0 THEN found
  ELSE ReachableFrom(
         found \cup (UNION { { walk.heap[a][i].ref : i \in 1..Len(walk.heap[a]) } :
                               a \in found } \ {0}),
         n - 1)

Reachable == ReachableFrom({1}, MaxContainers)

SecretsIn(value) ==
  Cardinality({ i \in 1..Len(walk.heap[value]) : walk.heap[value][i] = Text(Secret) })

RECURSIVE SumSecrets(_)
SumSecrets(values) ==
  IF values = {} THEN 0
  ELSE LET value == CHOOSE v \in values : TRUE
       IN SecretsIn(value) + SumSecrets(values \ {value})

\* The output entry that mirrors an input entry.
Mirror(entry) ==
  IF entry.string
    THEN Text(IF entry.text = Secret THEN "[REDACTED:openai_key:5e1f00d5]" ELSE entry.text)
    ELSE Ref(OutputOf(entry.ref))

VisitedOnce ==
  \A i, j \in 1..Len(walk.visits) : walk.visits[i] = walk.visits[j] => i = j

SameCounterpart ==
  \A k \in 1..Len(walk.cached) :
    /\ walk.cached[k].value \in Visited
    /\ walk.cached[k].output = OutputOf(walk.cached[k].value)
    /\ walk.cached[k].report = 0

TopologyKept ==
  (walk.returned /\ walk.mode # "off") =>
    /\ Visited = Reachable
    /\ walk.redacted = Some(Ref(OutputOf(1)))
    /\ \A value \in Visited :
         /\ Len(walk.output[OutputOf(value)]) = Len(walk.heap[value])
         /\ \A i \in 1..Len(walk.heap[value]) :
              walk.output[OutputOf(value)][i] = Mirror(walk.heap[value][i])
    /\ walk.report = SumSecrets(Reachable)

\* C30: redactValue returns on every value, cyclic ones included; every
\* container of the value is visited once; a container reached again gives
\* the output container made for it, so the output has the references of
\* the input, and adds an empty report.
C30_RedactValueTerminates ==
  /\ [](VisitedOnce /\ SameCounterpart /\ TopologyKept)
  /\ <>walk.returned

\* A container that holds a secret and a reference to itself.
C30_Witness ==
  /\ walk.returned /\ walk.mode = "standard"
  /\ walk.heap[1] = << Text(Secret), Ref(1) >>
  /\ walk.output[1] = << Text("[REDACTED:openai_key:5e1f00d5]"), Ref(1) >>
  /\ walk.report = 1
  /\ Len(walk.cached) = 1

\* ------------------------------------------------------------------------
\* C31 Restart-safe approval matching (handlers.ts buildApprovalId, setup.ts
\* loadApprovalStore/saveApprovalStore)
\* ------------------------------------------------------------------------
\* What resolveApproval answers to a call with the fingerprint of a stored
\* request, made under each session key, when approvals.json holds `file`.
Resolution(file, request, sessionKey) ==
  resolveApproval(file, state.policy.defaults.log,
                  [ risk |-> request.risk, reason |-> request.reason ],
                  sessionKey, request.toolName, request.paramsHash,
                  request.paramsPreview)

RestartStep == last'.op = "restart"

RunId(run) ==
  IF run.op = "call"
    THEN buildApprovalId(run.toolName, run.sessionKey, run.paramsHash, run.decision.risk)
    ELSE run.id

SaveStep(p) == procs[p].op # "idle" /\ procs'[p].op = "idle"

\* No once approval has passed a second call.
OncePassesOnce == \A id \in DOMAIN onceState : onceState[id] # "twice"

\* What the save of an operation leaves of the file it overwrites: every
\* session approval, every request of another id as it was, and, when a call
\* saves, the status of its own request and its used mark.
KeepsWritten(run, before, after) ==
  /\ \A i \in 1..Len(before.sessionApprovals) :
       \E j \in 1..Len(after.sessionApprovals) :
         after.sessionApprovals[j] = before.sessionApprovals[i]
  /\ \A i \in 1..Len(before.requests) :
       \E j \in 1..Len(after.requests) :
         /\ after.requests[j].id = before.requests[i].id
         /\ before.requests[i].id # RunId(run) => after.requests[j] = before.requests[i]
         /\ run.op = "call" =>
              /\ after.requests[j].status = before.requests[i].status
              /\ before.requests[i].used = Some(TRUE) => after.requests[j].used = Some(TRUE)

NothingLost == \A p \in Processes : SaveStep(p) => KeepsWritten(procs[p], approvalsFile, approvalsFile')

\* C32: however the loads and saves of two processes on one state directory
\* interleave, a once approval passes at most one call in total, and no
\* pending request, approval, denial, used mark or session approval that one
\* process wrote is lost when the other rewrites approvals.json.
C32_SharedStoreKeepsApprovals ==
  [][OncePassesOnce' /\ NothingLost]_vars

\* ------------------------------------------------------------------------
\* C33 Deny after a session approval (part_007 denyRequest, handlers.ts
\* resolveApproval)
\* ------------------------------------------------------------------------
\* The request of the id is denied: the last command applied to it is a deny.
Denied(file, id) ==
  \E i \in RequestsWithId(file.requests, id) : file.requests[i].status = "denied"

\* C33: from `/firewall deny <id>` until a later approve command for the id,
\* every call with that approval id whose composed decision is ASK is blocked,
\* also when the request had been approved for the session before and a call
\* had passed under that approval.
C33_DeniedStaysBlocked ==
  [][CallDecided("ASK") /\ Denied(approvalsFile, last'.id) => last'.outcome = "block"]_vars

\* ------------------------------------------------------------------------
\* C34 Result redaction covers the whole returned message (handlers.ts
\* handleToolResultPersist, buildOversizeToolResult, buildBlockedToolResult)
\* ------------------------------------------------------------------------
\* Result redaction is in effect for the tool of the last result.
RedactionInEffect ==
  /\ evaluatePolicy(state.policy, state.toolIndex, last.toolName).redactionPlan.redactResult
  /\ state.policy.defaults.redaction # "off"

\* Every string a message holds.
MessageStrings(message) ==
  { message.text }
    \cup { f[1] : f \in { g \in { message.details, message.toolCallId, message.toolName } :
                             IsDefined(g) } }
    \cup (IF IsDefined(message.content)
            THEN { message.content[1].text }
                   \cup { message.content[1].blocks[i].text[1] :
                            i \in { j \in 1..Len(message.content[1].blocks) :
                                      IsDefined(message.content[1].blocks[j].text) } }
            ELSE {})

\* C34: when result redaction is in effect, the message the handler returns
\* holds no field of the raw message unredacted: its details field is the one
\* of the redacted copy and none of its strings holds the secret, also when
\* the size guard or the injection scan replaces the message by a block result.
C34_ReturnedMessageIsRedacted ==
  last.op = "result" /\ RedactionInEffect =>
    /\ ResultOf.message.kind = "object" => ResultOf.message.details = ResultOf.redacted.details
    /\ \A text \in MessageStrings(ResultOf.message) : ~Contains(text, Secret)

\* ------------------------------------------------------------------------
\* C35 Different parameters, different approval ids (handlers.ts
\* redactParamsPreview, part_006 stableStringify/hashObject)
\* ------------------------------------------------------------------------
\* C35: two pre-calls of the same tool in the same session whose parameters
\* differ never get the same approval id, unserializable parameters included.
C35_ParamsSeparateApprovalIds ==
  [][ /\ last.op = "call" /\ last.composed = "ASK"
      /\ CallDecided("ASK")
      /\ last'.toolName = last.toolName /\ last'.sessionKey = last.sessionKey
      /\ last'.params # last.params
      => last'.id # last.id ]_vars

\* ------------------------------------------------------------------------
\* C36 Every matching rule counts the call, the most restrictive hit is
\* returned (rate-limit.ts createRateLimiter.evaluate, pickMoreRestrictive)
\* ------------------------------------------------------------------------
\* The step just taken was a pre-call that consulted the rate limiter.
EvaluateStep ==
  /\ CallStep
  /\ last'.afterPath # "DENY"
  /\ Len(state.rateLimitRules) > 0

\* The rule is for the tool: its exact normalized name, or every tool.
Applies(rule, toolName) == rule.toolName = toolName \/ rule.toolName \in { "*", "all" }

\* The entries of a sequence of times that are not older than the cutoff.
Within(times, cutoff) == SelectSeq(times, LAMBDA t : t >= cutoff)

ActionRank(action) == IF action = "DENY" THEN 2 ELSE IF action = "ASK" THEN 1 ELSE 0

\* Of the rules that hit, the first in configuration order among those with
\* the most restrictive action.
MostRestrictive(rules, hits) ==
  CHOOSE i \in hits :
    /\ \A j \in hits : ActionRank(rules[j].action) <= ActionRank(rules[i].action)
    /\ \A j \in hits : ActionRank(rules[j].action) = ActionRank(rules[i].action) => i <= j

\* C36: on each evaluate(), every rule for the tool gets the current time
\* appended to its own bucket, whether or not another rule has hit; the
\* buckets of the other rules stay as they are; the hit returned is that of
\* the most restrictive action among the rules that hit, the earliest in
\* configuration order on a tie, and null exactly when no rule hit.
C36_EveryRuleCountsMostRestrictiveWins ==
  [][EvaluateStep =>
       LET rules == state.rateLimitRules
           hits == last'.rateHits
       IN /\ \A i \in 1..Len(rules) :
               LET key == BucketKey(rules[i], last'.sessionKey)
               IN IF Applies(rules[i], last'.toolName)
                    THEN /\ key \in DOMAIN buckets'
                         /\ buckets'[key] =
                              Append(Within(BucketOf(buckets, key), now - rules[i].windowMs), now)
                    ELSE BucketOf(buckets', key) = BucketOf(buckets, key)
          /\ \A i \in hits : Applies(rules[i], last'.toolName)
          /\ (last'.rateHit = Undefined) <=> (hits = {})
          /\ hits # {} =>
               /\ last'.rateHit[1].rule = rules[MostRestrictive(rules, hits)]
               /\ last'.rateHit[1].key =
                    BucketKey(rules[MostRestrictive(rules, hits)], last'.sessionKey)
               /\ last'.rateAction = Some(rules[MostRestrictive(rules, hits)].action) ]_vars

\* Two ASK rules and a later DENY rule hit on one call, and the DENY rule is
\* the hit returned.
C36_Witness ==
  /\ last.op = "call"
  /\ \E i, j, k \in last.rateHits :
       /\ i < j /\ j < k
       /\ state.rateLimitRules[i].action = "ASK"
       /\ state.rateLimitRules[j].action = "ASK"
       /\ state.rateLimitRules[k].action = "DENY"
       /\ last.rateHit = Some([ rule |-> state.rateLimitRules[k],
                                count |-> last.rateHit[1].count,
                                key |-> BucketKey(state.rateLimitRules[k], last.sessionKey) ])

\* ------------------------------------------------------------------------
\* C37 A hit counts the evaluations of the window, hits included
\* (rate-limit.ts createRateLimiter.evaluate)
\* ------------------------------------------------------------------------
\* The evaluations made on the bucket before this one, not older than the
\* window.
EarlierInWindow(rule, sessionKey) ==
  Len(Within(GetOr(evalLog, BucketKey(rule, sessionKey), <<>>), now - rule.windowMs))

\* C37: for each rule and scope key, an evaluate() is a hit exactly when at
\* least maxCalls earlier evaluations on the bucket, hits counted, have a
\* time t with now - windowMs <= t; an evaluate() made more than windowMs
\* after the previous one on the bucket is no hit.
C37_HitCountsWindowEvaluations ==
  [][EvaluateStep =>
       \A i \in 1..Len(state.rateLimitRules) :
         LET rule == state.rateLimitRules[i]
             log == GetOr(evalLog, BucketKey(rule, last'.sessionKey), <<>>)
         IN Applies(rule, last'.toolName) =>
              /\ i \in last'.rateHits <=> EarlierInWindow(rule, last'.sessionKey) >= rule.maxCalls
              /\ (\A n \in 1..Len(log) : log[n] < now - rule.windowMs)
                   => i \notin last'.rateHits ]_vars

\* A hit whose window holds an earlier hit: the rule allows one call and
\* this is the third evaluation of the window.
C37_Witness ==
  /\ last.op = "call"
  /\ \E i \in last.rateHits :
       LET rule == state.rateLimitRules[i]
           key == BucketKey(rule, last.sessionKey)
       IN /\ rule.maxCalls = 1
          /\ Len(GetOr(evalLog, key, <<>>)) >= 3
          /\ evalLog[key][1] < now

\* ------------------------------------------------------------------------
\* C38 A session approval passes the calls a rate-limit rule escalates
\* (handlers.ts handleBeforeToolCall, resolveApproval)
\* ------------------------------------------------------------------------
\* The step just taken was a pre-call that a rate-limit rule with action ASK
\* raised from ALLOW to ASK.
EscalatedStep ==
  /\ CallStep
  /\ last'.afterPath = "ALLOW"
  /\ last'.rateAction = Some("ASK")
  /\ last'.composed = "ASK"

\* approvals.json holds a session approval of the fingerprint of the call.
HasSessionApproval(file, call) ==
  \E k \in 1..Len(file.sessionApprovals) :
    /\ file.sessionApprovals[k].id = call.id
    /\ file.sessionApprovals[k].toolName = call.toolName
    /\ file.sessionApprovals[k].paramsHash = call.paramsHash
    /\ file.sessionApprovals[k].sessionKey = call.sessionKey

\* C38: once the fingerprint of a call has a session approval in the store,
\* a call with that fingerprint that a rate-limit rule with action ASK raises
\* from ALLOW to ASK is passed through and recorded as ALLOW with reason
\* `Tool call approved by firewall.`, and the session approval stays.
C38_SessionApprovalPassesEscalatedCalls ==
  [][EscalatedStep /\ HasSessionApproval(approvalsFile, last') =>
       /\ last'.outcome = "pass"
       /\ last'.receiptDecision = "ALLOW"
       /\ last'.receiptReason = "Tool call approved by firewall."
       /\ HasSessionApproval(approvalsFile', last') ]_vars

\* An escalated call has passed under a session approval whose request has
\* been denied since.
C38_Witness ==
  /\ last.op = "call"
  /\ last.afterPath = "ALLOW"
  /\ last.rateAction = Some("ASK")
  /\ last.composed = "ASK"
  /\ last.outcome = "pass"
  /\ last.receiptReason = "Tool call approved by firewall."
  /\ HasSessionApproval(approvalsFile, last)
  /\ Denied(approvalsFile, last.id)

====
